---- MODULE Spec2Model ----
(***************************************************************************)
(* A model of the IFC export service: the coordinate transform and the     *)
(* element builders of scripts/export-ifc.py, its orchestrator             *)
(* export_chambers_to_ifc, and the request handler, progress store and     *)
(* progress stream of server.py.                                           *)
(*                                                                         *)
(* Numbers.  The code computes with Python floats (IEEE 754 binary64).  A  *)
(* number of the model is a record [hi |-> h, lo |-> l] that stands for    *)
(* the real value h * 2^60 + l metres, with h and l small integers; a      *)
(* number that is not whole has a third field, sub, and stands for         *)
(* h * 2^60 + l + sub / 1024 metres (0 < sub < 1024).  With h = 0 it is a  *)
(* small binary fraction, which binary64 holds exactly; with h # 0 it is a *)
(* value of survey magnitude, where binary64 holds only the multiples of   *)
(* 256 (128 just below a power of two).  FRound rounds such a value to the *)
(* nearest binary64, ties to even, as every float operation of the code    *)
(* does.                                                                   *)
(***************************************************************************)
EXTENDS Integers, Sequences, FiniteSets, TLC

VARIABLES
    cPoint, cOrigin, cMode, cOut, cStage,
    bKind, bData, bType, bOrigin, bMode, bResult, bStage,
    eRequest, eFileBefore, eOutcome, eStage,
    export_progress, now, hPc, hData, hExportId, hTemp, hResponse, hStored,
    sseId, sseStart, sseLast, sseSent, ssePc, sseProgress,
    tFiles, tSent, tServed, tRunning,
    fName, fCoords, fMode, fBefore, fFile, fResult, fStage

coordVars == <<cPoint, cOrigin, cMode, cOut, cStage>>
builderVars == <<bKind, bData, bType, bOrigin, bMode, bResult, bStage>>
exportVars == <<eRequest, eFileBefore, eOutcome, eStage>>
handlerVars == <<hPc, hData, hExportId, hTemp, hResponse, hStored>>
sseVars == <<sseId, sseStart, sseLast, sseSent, ssePc, sseProgress>>
tempVars == <<tFiles, tSent, tServed, tRunning>>
serverVars == <<export_progress, now, handlerVars, sseVars, tempVars>>
fileVars == <<fName, fCoords, fMode, fBefore, fFile, fResult, fStage>>
vars == <<coordVars, builderVars, exportVars, serverVars, fileVars>>

\* ---------------------------------------------------------------- bounds
\* Largest small coordinate (the lo part) an input carries.
CoordMax == 1
\* Largest survey-magnitude part (the hi part) an input carries.
HiMax == 1

\* --------------------------------------------------------------- numbers
Num(h, l) == [hi |-> h, lo |-> l]
Zero == Num(0, 0)

\* The parts of a metre a number can carry: 1 / SubUnits m is just under a
\* millimetre (0.9765625 mm) and exact in binary64.
SubUnits == 1024
Sub(x) == IF "sub" \in DOMAIN x THEN x.sub ELSE 0
\* The number h * 2^60 + l + s / SubUnits for any whole s.
Fine(h, l, s) ==
    IF s % SubUnits = 0 THEN Num(h, l + s \div SubUnits)
    ELSE [hi |-> h, lo |-> l + s \div SubUnits, sub |-> s % SubUnits]

Abs(n) == IF n < 0 THEN -n ELSE n

RECURSIVE Pow2(_)
Pow2(k) == IF k <= 0 THEN 1 ELSE 2 * Pow2(k - 1)

RECURSIVE FloorLog2(_)
FloorLog2(n) == IF n <= 1 THEN 0 ELSE 1 + FloorLog2(n \div 2)

\* binary64 keeps 53 significant bits: the spacing of the floats in
\* [2^k, 2^(k+1)) is 2^(k-52).  For a * 2^60 + m (a >= 1) that is
\* 2^(8 + e) with e = FloorLog2(a), halved when the value lies just below
\* the power of two a * 2^60.
UlpAt(a, m) ==
    LET e == FloorLog2(a)
    IN  IF m < 0 /\ a = Pow2(e) THEN Pow2(7 + e) ELSE Pow2(8 + e)

\* m rounded to the nearest multiple of u, ties to the even multiple.
RoundToMultiple(m, u) ==
    LET q == m \div u
        r == m % u
    IN  IF 2 * r < u THEN q * u
        ELSE IF 2 * r > u THEN (q + 1) * u
        ELSE IF q % 2 = 0 THEN q * u ELSE (q + 1) * u

\* The binary64 nearest to the real value x.hi * 2^60 + x.lo + Sub(x) /
\* SubUnits.  The part below x.hi * 2^60, taken away from zero, is m, or
\* m plus a fraction when x is not whole; m plus a fraction is never
\* half-way between two multiples of the even spacing u.
FRound(x) ==
    IF x.hi = 0 THEN x
    ELSE LET s == IF x.hi < 0 THEN -1 ELSE 1
             a == Abs(x.hi)
             m == IF s = 1 \/ Sub(x) = 0 THEN s * x.lo ELSE -(x.lo + 1)
             nearest(u) ==
                 IF Sub(x) = 0 THEN RoundToMultiple(m, u)
                 ELSE IF 2 * (m % u) < u THEN (m \div u) * u
                 ELSE (m \div u + 1) * u
         IN  Num(x.hi, s * nearest(UlpAt(a, m)))

\* Python float(v) of a JSON number.
to_float(v) == FRound(v)

\* Python float subtraction and addition: an operand that is an int is
\* converted to the nearest float first, and the exact result of the two
\* floats is rounded.
FSub(a, b) ==
    LET difference(x, y) ==
            FRound(Fine(x.hi - y.hi, x.lo - y.lo, Sub(x) - Sub(y)))
    IN  difference(to_float(a), to_float(b))
FAdd(a, b) ==
    LET sum(x, y) == FRound(Fine(x.hi + y.hi, x.lo + y.lo, Sub(x) + Sub(y)))
    IN  sum(to_float(a), to_float(b))

\* The numbers a request can carry, and those among them that are floats.
RawValues ==
    { Num(h, l) : h \in 0..HiMax, l \in 0..CoordMax }
        \cup { Fine(h, 0, SubUnits \div 2) : h \in 0..HiMax }
Floats == { FRound(v) : v \in RawValues }

\* ------------------------------------------------- coordinate transform
CoordinateModes == {"absolute", "project"}

\* get_project_origin_tuple: three floats, a missing coordinate is 0.0.
OriginTuples == [1..3 -> Floats]

\* The mutant of convert_world_to_mode: the origin is indexed in the
\* Z-up order (x, z, y) although the point is still Y-up.
convert_world_to_mode_zup_origin(x, y, z, origin_tuple, coordinate_mode) ==
    IF coordinate_mode = "project"
    THEN [i \in 1..3 |-> FSub(<<x, y, z>>[i], origin_tuple[<<1, 3, 2>>[i]])]
    ELSE <<x, y, z>>

\* convert_world_to_mode(x, y, z, origin_tuple, coordinate_mode)
convert_world_to_mode(x, y, z, origin_tuple, coordinate_mode) ==
    IF coordinate_mode = "project"
    THEN [i \in 1..3 |-> FSub(<<x, y, z>>[i], origin_tuple[i])]
    ELSE <<x, y, z>>

\* point[i] as a float, 0.0 when the point has no such coordinate
\* (Python indexes from 0: Coord(point, 1) is point[0]).
Coord(point, i) == IF Len(point) >= i THEN to_float(point[i]) ELSE Zero

\* The mutant of convert_point_yup_to_ifc: the Y-up order is kept.
convert_point_no_remap(point, origin_tuple, coordinate_mode) ==
    convert_world_to_mode(Coord(point, 1), Coord(point, 2), Coord(point, 3),
                          origin_tuple, coordinate_mode)

\* convert_point_yup_to_ifc(point, origin_tuple, coordinate_mode):
\* [X (easting), Y (northing), Z (elevation)] = [local_x, local_z, local_y].
convert_point_yup_to_ifc(point, origin_tuple, coordinate_mode) ==
    LET local == convert_world_to_mode(Coord(point, 1), Coord(point, 2),
                                       Coord(point, 3), origin_tuple,
                                       coordinate_mode)
    IN  <<local[1], local[3], local[2]>>

\* convert_points_yup_to_ifc(points, origin_tuple, coordinate_mode)
convert_points_yup_to_ifc(points, origin_tuple, coordinate_mode) ==
    [i \in 1..Len(points) |->
        convert_point_yup_to_ifc(points[i], origin_tuple, coordinate_mode)]

\* convert_direction_yup_to_ifc(direction): [dx, dz, dy].
convert_direction_yup_to_ifc(direction) ==
    <<Coord(direction, 1), Coord(direction, 3), Coord(direction, 2)>>

\* ------------------------------------------------------ element builders
\* A Python dict is a record that has only the keys the request gave;
\* Get is dict.get(key, default).
Get(d, k, default) == IF k \in DOMAIN d THEN d[k] ELSE default

\* Latest reading of the clock (in seconds) within the timeout of a
\* progress stream, and most events a progress stream sends.
MaxTime == 2
MaxSent == 4
\* Most requests to /api/create-blank-ifc the server answers.
MaxServed == 3
\* timeout = 300: the seconds after which a progress stream gives up.
timeout == 300
\* Most elements a request carries.
MaxItems == 2
\* Longest path, and largest vertex or index list, an element carries.
MaxPathLen == 3
MaxMesh == 3

\* [0, 0, 0], the default start and end point of a pipe or cable tray.
OriginPoint == <<Zero, Zero, Zero>>

\* A chamber without "lidConfig" (lid_config is None); an empty lidConfig
\* is as none to every test of it ("if lid_config:").
NoLid == [frameThickness |-> 0, none |-> TRUE]

\* What a builder call did: whether it raised (and the exception), whether
\* it returned an element (for add_road_to_ifc: a non-empty list), and the
\* element entities it left in the IFC file.
BuilderResult(raised, error, returned, entities) ==
    [raised |-> raised, error |-> error, returned |-> returned,
     entities |-> entities]
SkipResult == BuilderResult(FALSE, "", FALSE, <<>>)

\* The index of the first result of a sequence of calls that raised, 0 when
\* none did: the calls after it are never made.
FirstRaised(results) ==
    LET raising == { i \in 1..Len(results) : results[i].raised }
    IN  IF raising = {} THEN 0
        ELSE CHOOSE i \in raising : \A j \in raising : i <= j

\* The concatenation of a sequence of sequences.
RECURSIVE Flatten(_)
Flatten(seqs) ==
    IF seqs = <<>> THEN <<>> ELSE Head(seqs) \o Flatten(Tail(seqs))

\* An element entity of the IFC file: its solids, its ObjectPlacement
\* ("identity": IfcLocalPlacement at the origin, "matrix": the element's
\* own transform, "none": never assigned), whether it has a Representation
\* and whether it is assigned to the storey.
Entity(kind, solids, placement, representation, contained) ==
    [kind |-> kind, solids |-> solids, placement |-> placement,
     representation |-> representation, contained |-> contained]

\* The mutant of SegmentTooShort: no segment is skipped.
SegmentNeverTooShort(pt1, pt2) == FALSE

\* length = math.sqrt(dx*dx + dy*dy + dz*dz); length < 0.001.  A difference
\* of survey magnitude is far above a millimetre; otherwise the differences
\* are whole numbers of 1 / SubUnits m, their squares and the sum are exact
\* and the comparison is made on the squares:
\* squares / SubUnits^2 < 1 / 1000000.
SegmentTooShort(pt1, pt2) ==
    LET parts(d) == d.lo * SubUnits + Sub(d)
        squares(dx, dy, dz) == dx * dx + dy * dy + dz * dz
        short(dx, dy, dz) ==
            /\ dx.hi = 0 /\ dy.hi = 0 /\ dz.hi = 0
            /\ squares(parts(dx), parts(dy), parts(dz))
                   <= (SubUnits * SubUnits - 1) \div 1000000
    IN  short(FSub(pt2[1], pt1[1]), FSub(pt2[2], pt1[2]), FSub(pt2[3], pt1[3]))

\* The mutant of segment_extension: a segment is extended unless it is the
\* first or the last of those that were not skipped.
segment_extension_by_emitted(points_ifc, overlap, i) ==
    LET kept == { k \in 1..(Len(points_ifc) - 1) :
                      ~SegmentTooShort(points_ifc[k], points_ifc[k + 1]) }
    IN  [start |-> IF \E k \in kept : k < i THEN overlap ELSE 0,
         end |-> IF \E k \in kept : k > i THEN overlap ELSE 0]

\* start_extension = overlap if i > 0 else 0 and
\* end_extension = overlap if i < len(points_ifc) - 2 else 0
\* (Python counts the segments from 0, the model from 1).
segment_extension(points_ifc, overlap, i) ==
    [start |-> IF i > 1 THEN overlap ELSE 0,
     end |-> IF i < Len(points_ifc) - 1 THEN overlap ELSE 0]

\* The loop "for i in range(len(points_ifc) - 1)" of the path builders: one
\* extruded solid per segment that is not shorter than 1 mm.  A solid
\* starts start_extension behind pt1 along the segment's direction and is
\* extruded over length + start_extension + end_extension, length being
\* the norm of span = pt2 - pt1; the extensions are in micrometres.
RECURSIVE SegmentSolidsFrom(_, _, _)
SegmentSolidsFrom(points_ifc, overlap, i) ==
    IF i > Len(points_ifc) - 1 THEN <<>>
    ELSE LET rest == SegmentSolidsFrom(points_ifc, overlap, i + 1)
             pt1 == points_ifc[i]
             pt2 == points_ifc[i + 1]
             extension == segment_extension(points_ifc, overlap, i)
         IN  IF SegmentTooShort(pt1, pt2) THEN rest
             ELSE <<[segment |-> i,
                     from |-> pt1,
                     to |-> pt2,
                     span |-> <<FSub(pt2[1], pt1[1]), FSub(pt2[2], pt1[2]),
                                FSub(pt2[3], pt1[3])>>,
                     start_extension |-> extension.start,
                     end_extension |-> extension.end]>>
                  \o rest

SegmentSolids(points_ifc, overlap) == SegmentSolidsFrom(points_ifc, overlap, 1)

\* add_pipe_to_ifc(ifc_file, storey, context, pipe_data, ...)
add_pipe_to_ifc(pipe_data, origin_tuple, coordinate_mode) ==
    LET start_point == Get(pipe_data, "startPoint", OriginPoint)
        end_point == Get(pipe_data, "endPoint", OriginPoint)
        given == Get(pipe_data, "points", <<>>)
        points == IF Len(given) < 2 THEN <<start_point, end_point>> ELSE given
        points_ifc == convert_points_yup_to_ifc(points, origin_tuple, coordinate_mode)
        radius == Get(pipe_data, "diameter", 100) * 500
        extruded_solids == SegmentSolids(points_ifc, radius \div 2)
    IN  IF Len(points_ifc) < 2 THEN SkipResult
        ELSE IF extruded_solids = <<>> THEN SkipResult
        ELSE BuilderResult(FALSE, "", TRUE,
                 <<Entity("pipe", extruded_solids, "identity", TRUE, TRUE)
                       @@ [radius |-> radius]>>)

\* The mutant of add_cable_tray_to_ifc: a tray without a usable path is
\* skipped before its entity is created.
add_cable_tray_skipping(tray_data, origin_tuple, coordinate_mode) ==
    LET points == Get(tray_data, "points", <<>>)
    IN  IF Len(points) >= 2
        THEN BuilderResult(FALSE, "", TRUE,
                 <<Entity("cable_tray",
                          <<[swept_disk |-> convert_points_yup_to_ifc(
                                 points, origin_tuple, coordinate_mode)]>>,
                          "identity", TRUE, TRUE)>>)
        ELSE SkipResult

\* add_cable_tray_to_ifc(ifc_file, storey, context, tray_data, ...): the
\* entity is created first; "solid" is assigned only inside
\* "if points and len(points) >= 2", and "[solid]" is read after it.
add_cable_tray_to_ifc(tray_data, origin_tuple, coordinate_mode) ==
    LET points == Get(tray_data, "points", <<>>)
    IN  IF Len(points) >= 2
        THEN BuilderResult(FALSE, "", TRUE,
                 <<Entity("cable_tray",
                          <<[swept_disk |-> convert_points_yup_to_ifc(
                                 points, origin_tuple, coordinate_mode)]>>,
                          "identity", TRUE, TRUE)>>)
        ELSE BuilderResult(TRUE, "UnboundLocalError: solid", FALSE,
                 <<Entity("cable_tray", <<>>, "identity", FALSE, FALSE)>>)

\* The mutant of add_hanger_to_ifc: the solids are built at the converted
\* position as well.
add_hanger_baked(hanger_data, origin_tuple, coordinate_mode) ==
    LET position == Get(hanger_data, "position", OriginPoint)
        height == Get(hanger_data, "height", 500)
        crossbar_width == Get(hanger_data, "crossbarWidth", 41)
        half_crossbar == crossbar_width * 500
        pos_ifc == convert_point_yup_to_ifc(position, origin_tuple, coordinate_mode)
    IN  BuilderResult(FALSE, "", TRUE,
            <<Entity("hanger",
                     <<[part |-> "crossbar", z |-> -half_crossbar,
                        depth |-> crossbar_width * 1000, at |-> pos_ifc],
                       [part |-> "left_rod", from_z |-> -half_crossbar,
                        to_z |-> -(height * 1000) + half_crossbar, at |-> pos_ifc],
                       [part |-> "right_rod", from_z |-> -half_crossbar,
                        to_z |-> -(height * 1000) + half_crossbar, at |-> pos_ifc],
                       [part |-> "bottom_bar", z |-> -(height * 1000) - half_crossbar,
                        depth |-> crossbar_width * 1000, at |-> pos_ifc]>>,
                     "matrix", TRUE, TRUE)
                  @@ [translation |-> <<pos_ifc[1], pos_ifc[2],
                                        [above |-> pos_ifc[3], by |-> height * 1000]>>]>>)

\* add_hanger_to_ifc(ifc_file, storey, context, hanger_data, ...): crossbar,
\* two rods and bottom bar in local coordinates under the element's
\* matrix, whose translation is the converted position raised by the
\* height.  Levels in micrometres: each bar is extruded upwards by the
\* crossbar's width from half of it below its level (0 and -height), and
\* each rod runs from the underside of the crossbar to the top of the
\* bottom bar.
add_hanger_to_ifc(hanger_data, origin_tuple, coordinate_mode) ==
    LET position == Get(hanger_data, "position", OriginPoint)
        height == Get(hanger_data, "height", 500)
        crossbar_width == Get(hanger_data, "crossbarWidth", 41)
        half_crossbar == crossbar_width * 500
        pos_ifc == convert_point_yup_to_ifc(position, origin_tuple, coordinate_mode)
    IN  BuilderResult(FALSE, "", TRUE,
            <<Entity("hanger",
                     <<[part |-> "crossbar", z |-> -half_crossbar,
                        depth |-> crossbar_width * 1000],
                       [part |-> "left_rod", from_z |-> -half_crossbar,
                        to_z |-> -(height * 1000) + half_crossbar],
                       [part |-> "right_rod", from_z |-> -half_crossbar,
                        to_z |-> -(height * 1000) + half_crossbar],
                       [part |-> "bottom_bar", z |-> -(height * 1000) - half_crossbar,
                        depth |-> crossbar_width * 1000]>>,
                     "matrix", TRUE, TRUE)
                  @@ [translation |-> <<pos_ifc[1], pos_ifc[2],
                                        [above |-> pos_ifc[3], by |-> height * 1000]>>]>>)

\* add_light_connection_to_ifc(ifc_file, storey, context, connection_data, ...)
add_light_connection_to_ifc(connection_data, origin_tuple, coordinate_mode) ==
    LET points == Get(connection_data, "points", <<>>)
        points_ifc == convert_points_yup_to_ifc(points, origin_tuple, coordinate_mode)
        radius == Get(connection_data, "diameter", 50) * 500
        extruded_solids == SegmentSolids(points_ifc, radius \div 2)
    IN  IF Len(points) < 2 THEN SkipResult
        ELSE IF Len(points_ifc) < 2 THEN SkipResult
        ELSE IF extruded_solids = <<>> THEN SkipResult
        ELSE BuilderResult(FALSE, "", TRUE,
                 <<Entity("light_connection", extruded_solids, "identity",
                          TRUE, TRUE) @@ [radius |-> radius]>>)

\* A call of the IFC library that raises inside a builder is an input of
\* the model: the key "raises" of an element names the call, "none" when
\* every call works.
RaisingCall(data) == Get(data, "raises", "none")

\* add_dwg_line_to_ifc(ifc_file, storey, context, line_data, project_coords):
\* the line from "start" to "end", each [0, 0, 0] when not given, so that a
\* line without them is built too.  float(p[0]), float(p[2]), float(p[1])
\* of both points (IndexError on a point of fewer than 3 coordinates,
\* before the element is created); nothing is subtracted and
\* project_coords is not read.  An IfcBuildingElementProxy, one
\* IfcSweptDiskSolid of radius 0.01 (micrometres here) along the two
\* points, the identity placement, the representation, and the storey as
\* container; no call is guarded, so an exception of the library leaves
\* the function, after root.create_entity with the element in the file.
add_dwg_line_to_ifc(line_data, project_coords) ==
    LET start_point == Get(line_data, "start", OriginPoint)
        end_point == Get(line_data, "end", OriginPoint)
        start_ifc == <<to_float(start_point[1]), to_float(start_point[3]),
                       to_float(start_point[2])>>
        end_ifc == <<to_float(end_point[1]), to_float(end_point[3]),
                     to_float(end_point[2])>>
        line_element(contained) ==
            Entity("dwg_line", <<[swept_disk |-> <<start_ifc, end_ifc>>]>>,
                   "identity", TRUE, contained)
                @@ [ifc_class |-> "IfcBuildingElementProxy", radius |-> 10000]
    IN  IF Len(start_point) < 3 \/ Len(end_point) < 3
        THEN BuilderResult(TRUE, "IndexError: list index out of range", FALSE, <<>>)
        ELSE IF RaisingCall(line_data) = "root.create_entity"
        THEN BuilderResult(TRUE, "root.create_entity", FALSE, <<>>)
        ELSE IF RaisingCall(line_data) = "spatial.assign_container"
        THEN BuilderResult(TRUE, "spatial.assign_container", FALSE,
                 <<line_element(FALSE)>>)
        ELSE BuilderResult(FALSE, "", TRUE, <<line_element(TRUE)>>)

\* add_dwg_polyline_to_ifc(ifc_file, storey, context, polyline_data,
\* project_coords): None for fewer than 2 vertices; else the same element
\* with one swept disk along all the vertices.
add_dwg_polyline_to_ifc(polyline_data, project_coords) ==
    LET vertices == Get(polyline_data, "vertices", <<>>)
        vertices_ifc == [i \in 1..Len(vertices) |->
                            <<to_float(vertices[i][1]), to_float(vertices[i][3]),
                              to_float(vertices[i][2])>>]
        polyline_element(contained) ==
            Entity("dwg_polyline", <<[swept_disk |-> vertices_ifc]>>,
                   "identity", TRUE, contained)
                @@ [ifc_class |-> "IfcBuildingElementProxy", radius |-> 10000]
    IN  IF Len(vertices) < 2 THEN SkipResult
        ELSE IF \E i \in 1..Len(vertices) : Len(vertices[i]) < 3
        THEN BuilderResult(TRUE, "IndexError: list index out of range", FALSE, <<>>)
        ELSE IF RaisingCall(polyline_data) = "root.create_entity"
        THEN BuilderResult(TRUE, "root.create_entity", FALSE, <<>>)
        ELSE IF RaisingCall(polyline_data) = "spatial.assign_container"
        THEN BuilderResult(TRUE, "spatial.assign_container", FALSE,
                 <<polyline_element(FALSE)>>)
        ELSE BuilderResult(FALSE, "", TRUE, <<polyline_element(TRUE)>>)

\* create_road_mesh_element(..., component, ...): float(v[0]), float(v[1]),
\* float(v[2]) raises IndexError on a vertex of fewer than 3 coordinates.
\* The element is created, placed and given its representation, and
\* assigned to the storey, each under its own "try": an exception while
\* placing returns None and leaves the entity behind, an exception of
\* spatial.assign_container is printed and the element is returned.
create_road_mesh_element(component, origin_tuple, coordinate_mode) ==
    LET vertices == Get(component, "vertices", <<>>)
        indices == Get(component, "indices", <<>>)
        face_set == <<[mesh |-> convert_points_yup_to_ifc(
                           vertices, origin_tuple, coordinate_mode),
                       triangles |-> Len(indices) \div 3]>>
    IN  IF Len(vertices) < 3 \/ Len(indices) < 3 THEN SkipResult
        ELSE IF \E i \in 1..Len(vertices) : Len(vertices[i]) < 3
        THEN BuilderResult(TRUE, "IndexError: list index out of range", FALSE, <<>>)
        ELSE IF RaisingCall(component) = "root.create_entity" THEN SkipResult
        ELSE IF RaisingCall(component) = "createIfcLocalPlacement"
        THEN BuilderResult(FALSE, "", FALSE,
                 <<Entity("road_mesh", <<>>, "none", FALSE, FALSE)>>)
        ELSE BuilderResult(FALSE, "", TRUE,
                 <<Entity("road_mesh", face_set, "identity", TRUE,
                          RaisingCall(component) # "spatial.assign_container")>>)

SweptTypes == {"kerb", "footway", "bedding", "haunch"}
MeshTypes == {"footpath", "verge", "swale", "ditch", "wall", "fence", "hedge", "custom"}

\* create_road_swept_element(..., component, comp_type, ...)
create_road_swept_element(component, comp_type, origin_tuple, coordinate_mode) ==
    LET centerline == Get(component, "centerline", <<>>)
        points_ifc == convert_points_yup_to_ifc(centerline, origin_tuple, coordinate_mode)
        extruded_solids == SegmentSolids(points_ifc, 0)
    IN  IF Len(centerline) < 2 THEN SkipResult
        ELSE IF comp_type \notin SweptTypes THEN SkipResult
        ELSE IF extruded_solids = <<>> THEN SkipResult
        ELSE BuilderResult(FALSE, "", TRUE,
                 <<Entity("road_swept", extruded_solids, "identity", TRUE, TRUE)>>)

\* One pass of the loop "for comp_idx, component in enumerate(components)"
\* of add_road_to_ifc.
road_component(component, origin_tuple, coordinate_mode) ==
    LET comp_type == Get(component, "type", "unknown")
        vertices == Get(component, "vertices", <<>>)
        indices == Get(component, "indices", <<>>)
    IN  IF comp_type = "carriageway"
        THEN create_road_mesh_element(component, origin_tuple, coordinate_mode)
        ELSE IF comp_type \in SweptTypes
        THEN create_road_swept_element(component, comp_type, origin_tuple, coordinate_mode)
        ELSE IF comp_type \in MeshTypes
        THEN IF Len(vertices) < 3 \/ Len(indices) < 3 THEN SkipResult
             ELSE create_road_mesh_element(component, origin_tuple, coordinate_mode)
        ELSE SkipResult

\* The loop of add_road_to_ifc given the result of each pass: the elements
\* created up to the first pass that raises.
created_elements_of(results) ==
    LET stop == FirstRaised(results)
        reached == 1..(IF stop = 0 THEN Len(results) ELSE stop)
        created_elements == Flatten([i \in reached |-> results[i].entities])
    IN  BuilderResult(stop # 0,
                      IF stop = 0 THEN "" ELSE results[stop].error,
                      stop = 0 /\ \E i \in reached : results[i].returned,
                      created_elements)

\* add_road_to_ifc(ifc_file, storey, context, road_data, ...): returns the
\* list created_elements.
add_road_to_ifc(road_data, origin_tuple, coordinate_mode) ==
    LET components == Get(road_data, "components", <<>>)
    IN  created_elements_of(
            [i \in 1..Len(components) |->
                road_component(components[i], origin_tuple, coordinate_mode)])

\* create_chamber_geometry_solids(...): with a top slab (top_thickness > 0)
\* the opening's size is assigned to opening_radius or to opening_width and
\* opening_length, by the lid's shape (the chamber's when the lid names
\* none), and read again by the chamber's shape and the lid's "shape" key.
\* The names a call assigns:
OpeningAssigned(shape, circular, lid_config) ==
    IF lid_config # NoLid
    THEN IF Get(lid_config, "shape", shape) = "circle"
         THEN {"opening_radius"}
         ELSE {"opening_width", "opening_length"}
    ELSE IF circular THEN {"opening_radius"}
         ELSE {"opening_width", "opening_length"}

\* The names a call reads; the circular slab's print always reads
\* opening_radius.
OpeningRead(shape, circular, lid_config) ==
    IF circular
    THEN (IF lid_config = NoLid \/ Get(lid_config, "shape", "none") = "circle"
          THEN {"opening_radius"}
          ELSE {"opening_width", "opening_length"}) \cup {"opening_radius"}
    ELSE IF lid_config # NoLid /\ Get(lid_config, "shape", "none") = "circle"
         THEN {"opening_radius"}
         ELSE {"opening_width", "opening_length"}

\* The mutant of chamber_height: the difference of the levels, no floor.
chamber_height_unfloored(chamber_data) ==
    LET cover_level == Get(chamber_data, "coverLevel", Zero)
        invert_level == Get(chamber_data, "invertLevel", Zero)
    IN  FSub(cover_level, invert_level).lo * 1000

\* chamber_height = max(cover_level - invert_level, 0.1), in millimetres;
\* the levels are whole metres below 2^60.
chamber_height(chamber_data) ==
    LET cover_level == Get(chamber_data, "coverLevel", Zero)
        invert_level == Get(chamber_data, "invertLevel", Zero)
        rise == FSub(cover_level, invert_level).lo * 1000
    IN  IF rise > 100 THEN rise ELSE 100

\* The mutant of lid_placement_z: the lid is placed at the cover elevation.
lid_placement_at_cover(invert_elevation, height, frame) ==
    [above |-> invert_elevation, by |-> height * 1000]

\* cover_elevation = invert_elevation + chamber_height, and
\* lid_placement_z = cover_elevation - lid_frame_thickness / 2: a level
\* "by" micrometres above the invert elevation (height and frame thickness
\* are millimetres).
lid_placement_z(invert_elevation, height, frame) ==
    [above |-> invert_elevation, by |-> height * 1000 - frame * 500]

\* add_chamber_to_ifc(ifc_file, storey, context, chamber_data, ...): the
\* chamber's entity is created and placed, then its representation is
\* built; a lid entity follows when lidConfig is given.  Levels and slab
\* thicknesses are small whole metres (they enter the placement); the
\* chamber's height, plan sizes and lid sizes are millimetres, and the
\* opening of the top slab is in micrometres.  The entity carries the
\* translation and rotation of its placement matrix and the chamber's
\* height; a solid of the chamber carries the level z it is extruded from
\* and its depth, in millimetres (the lid's frame and cover: in
\* micrometres, the circular cover starting at half the frame thickness).
\* The lid's placement is frameThickness / 2 below the cover elevation,
\* invert elevation + height; its frame's footprint is the lid's radius or
\* width plus the frame thickness, in micrometres.  A rectangle is given by
\* its width; the length enters where the code takes min(width, length).
\* A key the record lacks reads as None: no diameter is 0 here (both are
\* false), a slab thickness not given is the wall's, and every thickness
\* is floored at 0 by max(float(x or 0.0), 0.0).  A circular chamber with
\* a diameter other than 0 takes it as its width and length.
add_chamber_to_ifc(chamber_data, origin_tuple, coordinate_mode) ==
    LET position == Get(chamber_data, "position", [none |-> TRUE])
        shape == Get(chamber_data, "shape", "rectangle")
        floored(given, least) == IF given > least THEN given ELSE least
        least(a, b) == IF a < b THEN a ELSE b
        width_given == floored(Get(chamber_data, "width", 1000), 10)
        length_given == floored(Get(chamber_data, "length", 1000), 10)
        diameter == IF "diameter" \in DOMAIN chamber_data THEN chamber_data.diameter
                    ELSE IF shape = "circle" THEN least(width_given, length_given)
                    ELSE 0
        width == IF shape = "circle" /\ diameter # 0 THEN diameter ELSE width_given
        length == IF shape = "circle" /\ diameter # 0 THEN diameter ELSE length_given
        narrow == least(width, length)
        circular == shape = "circle" /\ diameter > 0
        plan_width == width
        invert_level == Get(chamber_data, "invertLevel", Zero)
        wall_given == Get(chamber_data, "wallThickness", 0)
        base_given == Get(chamber_data, "baseThickness", wall_given)
        top_given == Get(chamber_data, "topThickness", wall_given)
        base_thickness == floored(base_given, 0)
        top_thickness == floored(top_given, 0)
        wall_thickness == floored(wall_given, 0)
        local == convert_world_to_mode(Get(position, "x", Zero), invert_level,
                                       Get(position, "z", Zero), origin_tuple,
                                       coordinate_mode)
        bottom_elevation == FSub(local[2], Num(0, base_thickness))
        lid_given == Get(chamber_data, "lidConfig", NoLid)
        lid_config == IF DOMAIN lid_given = {} THEN NoLid ELSE lid_given
        frame == Get(lid_config, "frameThickness", 75)
        lid_diameter == Get(lid_config, "diameter", 0)
        radius == IF diameter * 500 > 10000 THEN diameter * 500 ELSE 10000
        inner_radius == IF wall_thickness > 0 THEN radius - wall_thickness * 1000000
                        ELSE 0
        opening_radius ==
            IF lid_config # NoLid
            THEN IF lid_diameter # 0 THEN lid_diameter * 500 + frame * 1000
                 ELSE IF circular THEN radius \div 2 ELSE narrow * 250
            ELSE IF inner_radius > 0 THEN inner_radius ELSE radius \div 2
        opening_width ==
            IF lid_config # NoLid
            THEN IF Get(lid_config, "width", 0) # 0
                 THEN lid_config.width * 1000 + frame * 1000 ELSE plan_width * 500
            ELSE IF wall_thickness > 0
                 THEN plan_width * 1000 - wall_thickness * 2000000
                 ELSE plan_width * 500
        opening ==
            IF (lid_config # NoLid /\ Get(lid_config, "shape", "none") = "circle")
                   \/ (circular /\ lid_config = NoLid)
            THEN [shape |-> "circle", radius |-> opening_radius]
            ELSE [shape |-> "rectangle", width |-> opening_width]
        unbound == OpeningRead(shape, circular, lid_config)
                       \ OpeningAssigned(shape, circular, lid_config)
        height == chamber_height(chamber_data)
        wall_height == IF height - top_thickness * 1000 > 100
                       THEN height - top_thickness * 1000 ELSE 100
        solids == (IF base_thickness > 0
                   THEN <<[part |-> "base", z |-> 0, depth |-> base_thickness * 1000]>>
                   ELSE <<>>)
                      \o <<[part |-> "walls", z |-> base_thickness * 1000,
                            depth |-> wall_height]>>
                      \o (IF top_thickness > 0
                          THEN <<[part |-> "top",
                                  z |-> base_thickness * 1000 + wall_height,
                                  depth |-> top_thickness * 1000,
                                  opening |-> opening]>>
                          ELSE <<>>)
        rotation == Get(chamber_data, "rotation", 0)
        placed == [translation |-> <<to_float(local[1]), to_float(local[3]),
                                     bottom_elevation>>,
                   rotation |-> rotation,
                   height |-> height]
        chamber == Entity("chamber", solids, "matrix", TRUE, TRUE) @@ placed
        lid_shape == Get(lid_config, "shape", shape)
        lid_radius == (IF lid_diameter # 0 THEN lid_diameter
                       ELSE IF diameter # 0 THEN diameter ELSE narrow) * 500
        lid_width == (IF Get(lid_config, "width", 0) # 0 THEN lid_config.width
                      ELSE plan_width) * 1000
        frame_footprint ==
            IF lid_shape = "circle"
            THEN [shape |-> "circle", radius |-> lid_radius + frame * 1000]
            ELSE [shape |-> "rectangle", width |-> lid_width + frame * 1000]
        lid == Entity("lid",
                      <<[part |-> "frame", z |-> 0, depth |-> frame * 1000,
                         footprint |-> frame_footprint],
                        [part |-> "cover",
                         z |-> IF lid_shape = "circle" THEN frame * 500
                               ELSE frame * 1000,
                         depth |-> Get(lid_config, "thickness", 50) * 1000]>>,
                      "matrix", TRUE, TRUE)
               @@ [translation |-> <<to_float(local[1]), to_float(local[3]),
                                     lid_placement_z(local[2], height, frame)>>,
                   rotation |-> rotation]
    IN  IF top_thickness > 0 /\ unbound # {}
        THEN BuilderResult(TRUE, "UnboundLocalError: opening", FALSE,
                 <<Entity("chamber", <<>>, "matrix", FALSE, FALSE) @@ placed>>)
        ELSE BuilderResult(FALSE, "", TRUE,
                 IF lid_config # NoLid THEN <<chamber, lid>> ELSE <<chamber>>)

\* create_sign_geometry(ifc_file, sign_config, pos_x, pos_y, pos_z,
\* pole_height, ...): the plate of a sign that is not "custom", the border
\* wider than 1 mm of such a sign (one ring for a circular sign, else four
\* strips), and one graphic per shape of exportGeometry with 3 vertices or
\* more, returned apart with its colour.  Widths in millimetres.
create_sign_geometry(sign_config, ifc_pos, pole_height) ==
    LET shape == Get(sign_config, "shape", "rectangular")
        border_width == Get(sign_config, "borderWidth", 20)
        export_geometry == Get(sign_config, "exportGeometry", <<>>)
        drawn == SelectSeq(export_geometry,
                           LAMBDA geom : Len(Get(geom, "vertices", <<>>)) >= 3)
        plate == IF shape = "custom" THEN <<>>
                 ELSE <<[part |-> "plate", at |-> ifc_pos, up |-> pole_height]>>
        border == IF border_width > 1 /\ shape # "custom"
                  THEN [i \in 1..(IF shape = "circular" THEN 1 ELSE 4) |->
                           [part |-> "border", at |-> ifc_pos, up |-> pole_height]]
                  ELSE <<>>
    IN  [solids |-> plate \o border,
         svg_shapes_with_colors |->
             [i \in 1..Len(drawn) |->
                 [part |-> "graphic", at |-> ifc_pos, up |-> pole_height,
                  color |-> Get(drawn[i], "color", "#000000")]]]

\* add_public_light_to_ifc(ifc_file, storey, context, light_data, ...): the
\* pole and its base, then for a record of type "sign" with a non-empty
\* signConfig the solids of the sign, else the arm longer than 1 mm and
\* one fixture per fixtureCount.  The base of type "baseplate" is the
\* plate, one gusset per gussetCount when enableGussets is set, and per
\* boltCount an anchor bolt, its washer and its nut; the base of type
\* "concrete-foundation" is the foundation and, when foundationHasBaseplate
\* is set, the same parts on top of it.  "rise" is the level a part of the
\* base is extruded from above the converted position, in micrometres
\* (thicknesses and heights of the base are millimetres).  A fixture of
\* style "post-top" is 9 solids, one of style "decorative-lantern" 11, any
\* other 1.  A rotation of None raises inside the "try", which prints and
\* returns None; so does a kernel call that raises.  The solids are built
\* first, then the element is created, placed, given its representation,
\* contained in the storey and styled; the graphics of a sign are added
\* with a second representation after the styling.  A call that raises
\* leaves what was done before it.  Every solid is built at the converted
\* position (raised by the pole's height, in metres, above the pole); the
\* element's placement is the origin.
add_public_light_to_ifc(light_data, origin_tuple, coordinate_mode) ==
    LET rotation == Get(light_data, "rotation", "number")
        position == Get(light_data, "position", [none |-> TRUE])
        pole_config == Get(light_data, "poleConfig", [none |-> TRUE])
        fixture_config == Get(light_data, "fixtureConfig", [none |-> TRUE])
        pole_height == Get(pole_config, "height", 10)
        base_type == Get(pole_config, "baseType", "embedded")
        sign_config == Get(light_data, "signConfig", <<>>)
        baseplate_thickness == Get(pole_config, "baseplateThickness", 20) * 1000
        washer_thickness == Get(pole_config, "boltDiameter", 20) * 150
        fixture_style == Get(fixture_config, "style", "shoebox")
        baseplate(ifc_pos, baseplate_z) ==
            <<[part |-> "baseplate", at |-> ifc_pos, up |-> 0, rise |-> baseplate_z]>>
                \o (IF Get(pole_config, "enableGussets", FALSE)
                    THEN [g \in 1..Get(pole_config, "gussetCount", 4) |->
                             [part |-> "gusset", at |-> ifc_pos, up |-> 0,
                              rise |-> baseplate_z + baseplate_thickness]]
                    ELSE <<>>)
                \o [k \in 1..(3 * Get(pole_config, "boltCount", 4)) |->
                       [part |-> <<"bolt", "washer", "nut">>[((k - 1) % 3) + 1],
                        at |-> ifc_pos, up |-> 0,
                        rise |-> baseplate_z
                                 + <<-10000, baseplate_thickness,
                                     baseplate_thickness + washer_thickness>>[((k - 1) % 3) + 1]]]
        pole(ifc_pos) ==
            <<[part |-> "pole", at |-> ifc_pos, up |-> 0]>>
                \o (IF base_type = "concrete-foundation"
                    THEN <<[part |-> "foundation", at |-> ifc_pos, up |-> 0]>>
                    ELSE <<>>)
                \o (IF \/ base_type = "baseplate"
                       \/ /\ base_type = "concrete-foundation"
                          /\ Get(pole_config, "foundationHasBaseplate", FALSE)
                    THEN baseplate(ifc_pos,
                                   IF base_type = "baseplate" THEN 0
                                   ELSE Get(pole_config, "foundationHeight", 200) * 1000)
                    ELSE <<>>)
        light(ifc_pos) ==
            (IF Get(fixture_config, "armLength", 0) > 1
             THEN <<[part |-> "arm", at |-> ifc_pos, up |-> pole_height]>>
             ELSE <<>>)
                \o [i \in 1..(Get(fixture_config, "fixtureCount", 1)
                                  * (CASE fixture_style = "post-top" -> 9
                                       [] fixture_style = "decorative-lantern" -> 11
                                       [] OTHER -> 1)) |->
                       [part |-> "fixture", at |-> ifc_pos, up |-> pole_height]]
        built(ifc_pos, sign) ==
            IF Get(light_data, "type", "light") = "sign" /\ DOMAIN sign_config # {}
            THEN [solids |-> pole(ifc_pos) \o sign.solids,
                  svg_shapes_with_colors |-> sign.svg_shapes_with_colors]
            ELSE [solids |-> pole(ifc_pos) \o light(ifc_pos),
                  svg_shapes_with_colors |-> <<>>]
        element(raising, geometry) ==
            IF raising \in {"createIfcCartesianPoint", "createIfcDirection",
                            "createIfcAxis2Placement2D", "createIfcAxis2Placement3D",
                            "createIfcCircleProfileDef", "createIfcExtrudedAreaSolid",
                            "root.create_entity"}
            THEN SkipResult
            ELSE IF raising = "createIfcLocalPlacement"
            THEN BuilderResult(FALSE, "", FALSE,
                     <<Entity("public_light", <<>>, "none", FALSE, FALSE)>>)
            ELSE IF raising \in {"createIfcShapeRepresentation",
                                 "createIfcProductDefinitionShape"}
            THEN BuilderResult(FALSE, "", FALSE,
                     <<Entity("public_light", <<>>, "identity", FALSE, FALSE)>>)
            ELSE IF raising = "spatial.assign_container"
            THEN BuilderResult(FALSE, "", FALSE,
                     <<Entity("public_light", geometry.solids, "identity", TRUE, FALSE)>>)
            ELSE IF raising \in {"createIfcColourRgb", "createIfcSurfaceStyleRendering",
                                 "createIfcSurfaceStyle", "createIfcStyledItem",
                                 "createIfcPresentationStyleAssignment"}
            THEN BuilderResult(FALSE, "", FALSE,
                     <<Entity("public_light", geometry.solids, "identity", TRUE, TRUE)>>)
            ELSE BuilderResult(FALSE, "", TRUE,
                     <<Entity("public_light",
                              geometry.solids \o geometry.svg_shapes_with_colors,
                              "identity", TRUE, TRUE)>>)
        placed(ifc_pos) ==
            element(RaisingCall(light_data),
                    built(ifc_pos, create_sign_geometry(sign_config, ifc_pos, pole_height)))
    IN  IF rotation = "null" THEN SkipResult
        ELSE placed(convert_point_yup_to_ifc(
                        <<Get(position, "x", Zero), Get(position, "y", Zero),
                          Get(position, "z", Zero)>>,
                        origin_tuple, coordinate_mode))

\* The tally of the public-lights loop of export_chambers_to_ifc for one
\* record and what the builder returned for it: a created element counts
\* as a sign when the record's type is "sign", else as a light.
count_public_light(light, returned) ==
    LET element_type == Get(light, "type", "light")
    IN  [signs_created |-> IF returned /\ element_type = "sign" THEN 1 ELSE 0,
         public_lights_created |->
             IF returned /\ element_type # "sign" THEN 1 ELSE 0]

\* ---------------------------------------------------------- orchestrator
\* A JSON value of a request where its type matters: "null", a "string"
\* with its text, or a "number" with its decimal text (and its value n).
JNull == [json |-> "null", s |-> "", n |-> Zero]
JString(text) == [json |-> "string", s |-> text, n |-> Zero]
JNumber(text, value) == [json |-> "number", s |-> text, n |-> value]

\* Python's truth value of a JSON value: None is false, a string is false
\* when it is empty, and a number when it is zero: an integer (a text
\* without point and exponent) when it has no digit other than 0, a float
\* also when json.loads rounds it to 0.0, its value being at most 2^-1075.
\* An exponent of more than six digits counts as one million.
\* HalfLeastFloat: the digits of 2^-1075 = 0.247...e-323, half the least
\* positive binary64.
Truthy(v) ==
    LET HalfLeastFloat ==
            "2470328229206232720882843964341106861825299013071623822127928412" \o
            "5033775363510437593264991818081799618989828234772285886546332835" \o
            "5177969898199387398005390939063150356595155702263922908583924491" \o
            "0518443593180284993653615250031937045767824921936562366986365848" \o
            "0757001585769269903706311928279558551332927834338409351978015531" \o
            "2465972635795746227664652728272200563740064854999770965994704540" \o
            "2082816622623785739345073633900796776193057750674017632467360096" \o
            "8951340535537458516661134223766678604162159680461914467291840300" \o
            "5300575308490487653917113865916462395249126236538818796362393732" \o
            "8042389101867234849766823508986338858792562830275599565752445550" \o
            "7255189313690836254779186948667994968324049705821028513185451396" \o
            "213837722826145437693412532098591327667236328125"
        Min(S) == CHOOSE i \in S : \A j \in S : i <= j
        DigitOf(ch) == CHOOSE d \in 0..9 : SubSeq("0123456789", d + 1, d + 1) = ch
        IsDigit(ch) == \E d \in 1..10 : SubSeq("0123456789", d, d) = ch
        exponent_of(tail) ==
            LET written == SelectSeq(tail, IsDigit)
                nonzero == { k \in 1..Len(written) : written[k] # "0" }
                counted == IF nonzero = {} THEN <<>>
                           ELSE SubSeq(written, Min(nonzero), Len(written))
                value[k \in 0..Len(counted)] ==
                    IF k = 0 THEN 0 ELSE 10 * value[k - 1] + DigitOf(counted[k])
                size == IF Len(counted) > 6 THEN 1000000 ELSE value[Len(counted)]
            IN  IF \E k \in 1..Len(tail) : tail[k] = "-" THEN -size ELSE size
        at_most_half(digits) ==
            LET longest == IF Len(digits) > Len(HalfLeastFloat) THEN Len(digits)
                           ELSE Len(HalfLeastFloat)
                spelled(k) == IF k <= Len(digits) THEN DigitOf(digits[k]) ELSE 0
                half(k) == IF k <= Len(HalfLeastFloat)
                           THEN DigitOf(SubSeq(HalfLeastFloat, k, k)) ELSE 0
                differ == { k \in 1..longest : spelled(k) # half(k) }
            IN  differ = {} \/ spelled(Min(differ)) < half(Min(differ))
        nonzero_float(c, last, first, point) ==
            LET leading == (IF first < point THEN point - first - 1 ELSE point - first)
                               + exponent_of(SubSeq(c, last + 2, Len(c)))
            IN  IF leading # -324 THEN leading > -324
                ELSE ~at_most_half(SelectSeq(SubSeq(c, first, last), IsDigit))
        number(c, last) ==
            LET significant == { i \in 1..last : IsDigit(c[i]) /\ c[i] # "0" }
                points == { i \in 1..last : c[i] = "." }
            IN  IF significant = {} THEN FALSE
                ELSE IF points = {} /\ last = Len(c) THEN TRUE
                ELSE nonzero_float(c, last, Min(significant),
                                   IF points = {} THEN last + 1 ELSE Min(points))
        mantissa(c) ==
            number(c, Min({ i \in 1..Len(c) : c[i] \in {"e", "E"} } \cup {Len(c) + 1}) - 1)
    IN  CASE v.json = "null" -> FALSE
          [] v.json = "string" -> v.s # ""
          [] OTHER -> mantissa([i \in 1..Len(v.s) |-> SubSeq(v.s, i, i)])

\* str.lower(): every upper-case letter replaced by its lower-case one
\* (the letters A to Z; the texts of the model are ASCII).
Lower(text) ==
    LET lower_at(i) ==
            LET upper == { k \in 1..26 :
                             SubSeq("ABCDEFGHIJKLMNOPQRSTUVWXYZ", k, k) = SubSeq(text, i, i) }
            IN  IF upper = {} THEN SubSeq(text, i, i)
                ELSE SubSeq("abcdefghijklmnopqrstuvwxyz",
                            CHOOSE k \in upper : TRUE, CHOOSE k \in upper : TRUE)
        lowered[i \in 0..Len(text)] ==
            IF i = 0 THEN "" ELSE lowered[i - 1] \o lower_at(i)
    IN  lowered[Len(text)]

\* What a step of the export did: it raised "error", or it gave "value".
Raised(error) == [raised |-> TRUE, error |-> error, value |-> "none"]
Value(v) == [raised |-> FALSE, error |-> "", value |-> v]

\* coordinate_mode = (coordinate_mode or "absolute").lower(), then the
\* fallback to "absolute" for a text that is neither mode.
normalize_coordinate_mode(coordinate_mode) ==
    LET chosen == IF Truthy(coordinate_mode) THEN coordinate_mode
                  ELSE JString("absolute")
    IN  IF chosen.json # "string"
        THEN Raised("AttributeError: object has no attribute 'lower'")
        ELSE IF Lower(chosen.s) \notin {"absolute", "project"}
        THEN Value("absolute")
        ELSE Value(Lower(chosen.s))

\* Python float(v) of a JSON value: the float of a number; TypeError for
\* None; for a string the number its text spells, ValueError when it
\* spells none.  The text is taken without the blanks around it: a sign,
\* digits with at most one point among them, and an exponent (e or E, a
\* sign, digits); digits may be parted by single underscores.  The value
\* is the whole number nearest to the one spelled (the numbers of the
\* model are whole), and "inf" or "nan" for the texts that spell those.
float_of_json(v) ==
    LET Min(S) == CHOOSE i \in S : \A j \in S : i <= j
        Max(S) == CHOOSE i \in S : \A j \in S : i >= j
        Pow10[k \in 0..9] == IF k = 0 THEN 1 ELSE 10 * Pow10[k - 1]
        DigitOf(c) == { d \in 0..9 : c = SubSeq("0123456789", d + 1, d + 1) }
        Number(c, S) ==
            LET spelled[T \in SUBSET S] ==
                    IF T = {} THEN 0
                    ELSE (CHOOSE d \in DigitOf(c[Max(T)]) : TRUE)
                             + 10 * spelled[T \ {Max(T)}]
            IN  spelled[S]
        nearest(negative, n, scale) ==
            Value(Num(0, (IF negative THEN -1 ELSE 1)
                         * (IF n = 0 \/ scale < -9 THEN 0
                            ELSE IF scale >= 0 THEN n * Pow10[scale]
                            ELSE RoundToMultiple(n, Pow10[-scale]) \div Pow10[-scale])))
        spelling(c, negative, mantissa, exponent, exp_sign, points) ==
            LET Joins(i, part) == /\ c[i] = "_" /\ i - 1 \in part /\ i + 1 \in part
                                  /\ DigitOf(c[i - 1]) # {} /\ DigitOf(c[i + 1]) # {}
                Digits(part) == { i \in part : DigitOf(c[i]) # {} }
                WellFormed(part) ==
                    /\ Digits(part) # {}
                    /\ \A i \in part : DigitOf(c[i]) # {} \/ i \in points \/ Joins(i, part)
            IN  IF ~ /\ WellFormed(mantissa)
                     /\ Cardinality(points) <= 1
                     /\ exp_sign # 0 => WellFormed(exponent)
                THEN Raised("ValueError: could not convert string to float")
                ELSE nearest(negative, Number(c, Digits(mantissa)),
                             exp_sign * Number(c, Digits(exponent))
                                 - Cardinality({ i \in Digits(mantissa) :
                                                   \E p \in points : i > p }))
        marked(c, negative, start, mark, last) ==
            LET exp_signed == mark < last /\ c[mark + 1] \in {"+", "-"}
            IN  spelling(c, negative, start..(mark - 1),
                         (mark + (IF exp_signed THEN 2 ELSE 1))..last,
                         IF mark > last THEN 0
                         ELSE IF exp_signed /\ c[mark + 1] = "-" THEN -1 ELSE 1,
                         { i \in start..(mark - 1) : c[i] = "." })
        named(c, negative, start, last, word) ==
            IF word \in {"inf", "infinity"} THEN Value(IF negative THEN "-inf" ELSE "inf")
            ELSE IF word = "nan" THEN Value("nan")
            ELSE marked(c, negative, start,
                        Min({ i \in start..last : c[i] \in {"e", "E"} } \cup {last + 1}),
                        last)
        signed(c, start, last) ==
            LET unsigned == IF c[start] \in {"+", "-"} THEN start + 1 ELSE start
            IN  named(c, c[start] = "-", unsigned, last,
                      Lower(SubSeq(v.s, unsigned, last)))
        stripped(c, inked) ==
            IF inked = {} THEN Raised("ValueError: could not convert string to float")
            ELSE signed(c, Min(inked), Max(inked))
    IN  IF v.json = "number" THEN Value(to_float(v.n))
        ELSE IF v.json = "null"
        THEN Raised("TypeError: float() argument must be a string or a real number")
        ELSE stripped([i \in 1..Len(v.s) |-> SubSeq(v.s, i, i)],
                      { i \in 1..Len(v.s) :
                          SubSeq(v.s, i, i) \notin {" ", "\t", "\n", "\r", "\f"} })

\* get_project_origin_tuple(project_coords): float() of the origin's x, y
\* and z in this order, each 0.0 when missing; the first float() that
\* raises ends the call.
OriginOf(project_coords) == Get(project_coords, "origin", [none |-> JNull])
get_project_origin_tuple(project_coords) ==
    LET first_raised(f) ==
            IF f.x.raised THEN f.x
            ELSE IF f.y.raised THEN f.y
            ELSE IF f.z.raised THEN f.z
            ELSE Value(<<f.x.value, f.y.value, f.z.value>>)
    IN  first_raised([k \in {"x", "y", "z"} |->
                         float_of_json(Get(OriginOf(project_coords), k,
                                           JNumber("0.0", Zero)))])

\* apply_georeferencing(ifc_file, project_coords): the map conversion of
\* the file; none when the project has no origin, or an empty one (the
\* record [none |-> JNull] stands for {} and for null).
NoGeoreference == [Eastings |-> JNull, Northings |-> JNull, OrthogonalHeight |-> JNull]
NoOrigin == [none |-> JNull]

\* The rotation apply_georeferencing adds for a northAngle that is not
\* None: XAxisAbscissa = math.cos(math.radians(north_angle)) and
\* XAxisOrdinate = math.sin(...).  math.radians raises TypeError for a
\* string.  The angles computed are the whole multiples of NorthStep
\* degrees from -360 to 360, written as an integer or with a fraction of
\* zeros; for a negative angle the cosine is that of the positive one and
\* the sine its negative (-0.0 has the sine -0.0).  NorthTable holds, for
\* d = 0, 15, ..., 360 (entry d / 15 + 1), the text of the binary64 that
\* Python computes for the cosine and the whole number nearest to it, and
\* the same for the sine.
north_rotation(project_coords) ==
    LET NorthStep == 15
        NorthTable ==
            <<
              <<"1.0", 1, "0.0", 0>>,
              <<"0.9659258262890683", 1, "0.25881904510252074", 0>>,
              <<"0.8660254037844387", 1, "0.49999999999999994", 0>>,
              <<"0.7071067811865476", 1, "0.7071067811865475", 1>>,
              <<"0.5000000000000001", 1, "0.8660254037844386", 1>>,
              <<"0.25881904510252074", 0, "0.9659258262890683", 1>>,
              <<"6.123233995736766e-17", 0, "1.0", 1>>,
              <<"-0.25881904510252085", 0, "0.9659258262890683", 1>>,
              <<"-0.4999999999999998", 0, "0.8660254037844387", 1>>,
              <<"-0.7071067811865475", -1, "0.7071067811865476", 1>>,
              <<"-0.8660254037844387", -1, "0.49999999999999994", 0>>,
              <<"-0.9659258262890682", -1, "0.258819045102521", 0>>,
              <<"-1.0", -1, "1.2246467991473532e-16", 0>>,
              <<"-0.9659258262890683", -1, "-0.2588190451025208", 0>>,
              <<"-0.8660254037844386", -1, "-0.5000000000000001", -1>>,
              <<"-0.7071067811865477", -1, "-0.7071067811865475", -1>>,
              <<"-0.5000000000000004", -1, "-0.8660254037844384", -1>>,
              <<"-0.25881904510252063", 0, "-0.9659258262890683", -1>>,
              <<"-1.8369701987210297e-16", 0, "-1.0", -1>>,
              <<"0.2588190451025203", 0, "-0.9659258262890684", -1>>,
              <<"0.5000000000000001", 1, "-0.8660254037844386", -1>>,
              <<"0.7071067811865474", 1, "-0.7071067811865477", -1>>,
              <<"0.8660254037844384", 1, "-0.5000000000000004", -1>>,
              <<"0.9659258262890683", 1, "-0.2588190451025207", 0>>,
              <<"1.0", 1, "-2.4492935982947064e-16", 0>>
            >>
        north_angle == Get(project_coords, "northAngle", JNull)
        negated(text) == IF SubSeq(text, 1, 1) = "-" THEN SubSeq(text, 2, Len(text))
                         ELSE "-" \o text
        rotation(entry, negative) ==
            [XAxisAbscissa |-> JNumber(entry[1], Num(0, entry[2])),
             XAxisOrdinate |->
                 IF negative THEN JNumber(negated(entry[3]), Num(0, -entry[4]))
                 ELSE JNumber(entry[3], Num(0, entry[4]))]
        whole(c, points) ==
            /\ \A i \in DOMAIN c : c[i] \in {"0", "1", "2", "3", "4", "5", "6", "7",
                                            "8", "9", "-", "."}
            /\ \A i \in DOMAIN c : \A k \in points : i > k => c[i] = "0"
        turned(c, points, degrees) ==
            CASE whole(c, points) /\ degrees \in -360..360 /\ degrees % NorthStep = 0 ->
                     rotation(NorthTable[Abs(degrees) \div NorthStep + 1],
                              degrees < 0 \/ (degrees = 0 /\ c[1] = "-" /\ points # {}))
        spelled(c) == turned(c, { i \in DOMAIN c : c[i] = "." }, north_angle.n.lo)
    IN  IF north_angle.json = "null" THEN Value(<<>>)
        ELSE IF north_angle.json = "string"
        THEN Raised("TypeError: must be real number, not str")
        ELSE Value(spelled([i \in 1..Len(north_angle.s) |->
                               SubSeq(north_angle.s, i, i)]))

\* The mutant of apply_georeferencing: the origin is read in the Z-up
\* order, y as the northing and z as the height.
apply_georeferencing_zup(project_coords) ==
    LET origin == OriginOf(project_coords)
        named == IF Get(project_coords, "epsgCode", "") # ""
                 THEN [Name |-> project_coords.epsgCode]
                 ELSE IF Get(project_coords, "name", "") # ""
                 THEN [Name |-> project_coords.name]
                 ELSE <<>>
        edited(rotation) ==
            IF rotation.raised THEN rotation
            ELSE Value([Eastings |-> Get(origin, "x", JNumber("0.0", Zero)),
                        Northings |-> Get(origin, "y", JNumber("0.0", Zero)),
                        OrthogonalHeight |-> Get(origin, "z", JNumber("0.0", Zero)),
                        projected_crs |-> named]
                           @@ rotation.value)
    IN  IF origin = NoOrigin THEN Value(NoGeoreference)
        ELSE edited(north_rotation(project_coords))

\* apply_georeferencing(ifc_file, project_coords): nothing without
\* project_coords or without a non-empty origin; else
\* georeference.add_georeferencing, then the coordinate operation (the
\* origin's values as given, 0.0 for a missing one; the rotation, which
\* can raise) and the projected CRS are handed to
\* georeference.edit_georeferencing.  The CRS is named after the EPSG
\* code when the project has one, else after the project's name, and is
\* None (here <<>>) when it has neither.
apply_georeferencing(project_coords) ==
    LET origin == OriginOf(project_coords)
        named == IF Get(project_coords, "epsgCode", "") # ""
                 THEN [Name |-> project_coords.epsgCode]
                 ELSE IF Get(project_coords, "name", "") # ""
                 THEN [Name |-> project_coords.name]
                 ELSE <<>>
        edited(rotation) ==
            IF rotation.raised THEN rotation
            ELSE Value([Eastings |-> Get(origin, "x", JNumber("0.0", Zero)),
                        Northings |-> Get(origin, "z", JNumber("0.0", Zero)),
                        OrthogonalHeight |-> Get(origin, "y", JNumber("0.0", Zero)),
                        projected_crs |-> named]
                           @@ rotation.value)
    IN  IF origin = NoOrigin THEN Value(NoGeoreference)
        ELSE edited(north_rotation(project_coords))

DEFAULT_PROJECT_NAME == "InfraGrid3D Project"

\* determine_length_unit_settings(project_coords): the "raw" name of the
\* length unit, METERS for a unit UNIT_MAPPING does not know.
determine_length_unit_settings(project_coords) ==
    LET unit_label == Lower(Get(project_coords, "unit", "meters"))
    IN  CASE unit_label \in {"millimeters", "millimetres", "mm"} -> "MILLIMETERS"
          [] unit_label \in {"feet", "foot", "ft"} -> "FEET"
          [] unit_label \in {"inches", "inch", "in"} -> "INCHES"
          [] OTHER -> "METERS"

\* create_ifc_file(project_name, project_coords, coordinate_mode): project,
\* units, contexts, site, building and storey, each aggregated under the
\* one before; the storey's Elevation is the project's "elevation" when
\* that is not None; the storey is placed with np.eye(4); the map
\* conversion is applied only in project mode, and an exception of
\* apply_georeferencing leaves create_ifc_file: no file is returned.
create_ifc_file(project_name, project_coords, coordinate_mode) ==
    LET created(georeference) ==
            IF georeference.raised THEN georeference
            ELSE Value(
                [project |-> IF project_name = "" THEN DEFAULT_PROJECT_NAME
                             ELSE project_name,
                 length_unit |-> determine_length_unit_settings(project_coords),
                 hierarchy |-> <<"IfcProject", "IfcSite", "IfcBuilding",
                                 "IfcBuildingStorey">>,
                 storey_placement |-> "identity",
                 storey_elevation |-> Get(project_coords, "elevation", JNull),
                 georeference |-> georeference.value,
                 entities |-> <<>>])
    IN  created(IF coordinate_mode = "project"
                THEN apply_georeferencing(project_coords)
                ELSE Value(NoGeoreference))

\* The collections of a request in the order the export processes them,
\* named as the parameters of export_chambers_to_ifc.
Collections ==
    <<"chambers_data", "pipes_data", "cable_trays_data", "hangers_data",
      "public_lights_data", "light_connections_data", "roads_data">>
CollectionNames == { Collections[c] : c \in 1..Len(Collections) }

\* The builder the export calls for an element of a collection.
Build(collection, data, origin_tuple, coordinate_mode) ==
    CASE collection = "chambers_data" ->
             add_chamber_to_ifc(data, origin_tuple, coordinate_mode)
      [] collection = "pipes_data" ->
             add_pipe_to_ifc(data, origin_tuple, coordinate_mode)
      [] collection = "cable_trays_data" ->
             add_cable_tray_to_ifc(data, origin_tuple, coordinate_mode)
      [] collection = "hangers_data" ->
             add_hanger_to_ifc(data, origin_tuple, coordinate_mode)
      [] collection = "public_lights_data" ->
             add_public_light_to_ifc(data, origin_tuple, coordinate_mode)
      [] collection = "light_connections_data" ->
             add_light_connection_to_ifc(data, origin_tuple, coordinate_mode)
      [] collection = "roads_data" ->
             add_road_to_ifc(data, origin_tuple, coordinate_mode)

\* One loop "for index, x in enumerate(xs_data, start=1)" of the export,
\* given the result of the builder on each element: the elements are built
\* in order up to the first builder that raises; "created" counts the calls
\* that returned an element (for roads, a non-empty list).
LoopOutcome(results) ==
    LET stop == FirstRaised(results)
        reached == 1..(IF stop = 0 THEN Len(results) ELSE stop)
    IN  [raised |-> stop # 0,
         error |-> IF stop = 0 THEN "" ELSE results[stop].error,
         entities |-> Flatten([i \in reached |-> results[i].entities]),
         created |-> IF stop # 0 THEN 0
                     ELSE Cardinality({ i \in reached : results[i].returned })]

BuildAll(collection, items, origin_tuple, coordinate_mode) ==
    LoopOutcome([i \in 1..Len(items) |->
                    Build(collection, items[i], origin_tuple, coordinate_mode)])

\* The loops of the export one after the other, given the outcome of each:
\* the first exception ends them all.  "created" holds the count of every
\* collection whose loop ran to its end.
LoopsOutcome(outcomes) ==
    LET stop == FirstRaised(outcomes)
        reached == 1..(IF stop = 0 THEN Len(outcomes) ELSE stop)
    IN  [raised |-> stop # 0,
         error |-> IF stop = 0 THEN "" ELSE outcomes[stop].error,
         entities |-> Flatten([c \in reached |-> outcomes[c].entities]),
         created |-> [k \in { Collections[c] : c \in reached \ {stop} } |->
                         outcomes[CHOOSE c \in reached : Collections[c] = k].created]]

BuildCollections(request, origin_tuple, coordinate_mode) ==
    LoopsOutcome([c \in 1..Len(Collections) |->
                     BuildAll(Collections[c], request[Collections[c]],
                              origin_tuple, coordinate_mode)])

\* What export_chambers_to_ifc leaves behind: its result dictionary, the
\* IFC file it built in memory, the normalized mode, the number of elements
\* created per collection it reached, the file at output_path and the
\* number of calls of ifc_file.write.
ExportOutcome(result, ifc_file, mode, created, output_file, writes) ==
    [result |-> result, ifc_file |-> ifc_file, mode |-> mode,
     created |-> created, output_file |-> output_file, writes |-> writes]

Failure(error) == [success |-> FALSE, error |-> error]
NoFile == create_ifc_file("", [name |-> ""], "absolute").value
NoneCreated == [k \in {} |-> 0]

\* The end of export_chambers_to_ifc, after the loops gave "built" in the
\* file "empty_file": an exception of a builder is reported; otherwise the
\* file is written once and the result counts the elements requested, and
\* the road components created.
write_and_report(request, empty_file, coordinate_mode, built, output_file, write_outcome) ==
    LET ifc_file == [empty_file EXCEPT !.entities = built.entities]
    IN  IF built.raised
        THEN ExportOutcome(Failure(built.error), ifc_file, coordinate_mode,
                           built.created, output_file, 0)
        ELSE IF write_outcome # "ok"
        THEN ExportOutcome(Failure("OSError: write failed"), ifc_file,
                           coordinate_mode, built.created,
                           IF write_outcome = "partial" THEN "partial"
                           ELSE output_file, 1)
        ELSE ExportOutcome(
                 [success |-> TRUE,
                  file |-> "output_path",
                  chambers_count |-> Len(request.chambers_data),
                  pipes_count |-> Len(request.pipes_data),
                  cable_trays_count |-> Len(request.cable_trays_data),
                  hangers_count |-> Len(request.hangers_data),
                  public_lights_count |-> Len(request.public_lights_data),
                  light_connections_count |-> Len(request.light_connections_data),
                  roads_count |-> Len(request.roads_data),
                  road_components_count |->
                      Len(SelectSeq(built.entities,
                                    LAMBDA e : /\ e.kind \in {"road_mesh", "road_swept"}
                                               /\ e.representation))],
                 ifc_file, coordinate_mode, built.created, "complete", 1)

\* export_chambers_to_ifc(chambers_data, output_path, project_coords, ...,
\* coordinate_mode): the whole body runs under "try ... except Exception",
\* which returns {"success": False, "error": str(error)} and leaves the
\* file at output_path as it is.  output_file is the file found at
\* output_path ("absent", or "present" before the call); write_outcome is
\* what ifc_file.write(output_path) does: "ok", or an OSError before
\* ("unopened") or after ("partial") the file was opened for writing.
export_chambers_to_ifc(request, output_file, write_outcome) ==
    LET project_coords == request.project_coords
        mode == normalize_coordinate_mode(request.coordinate_mode)
        origin_tuple == get_project_origin_tuple(project_coords)
        project_name == Get(project_coords, "name", DEFAULT_PROJECT_NAME)
    IN  IF mode.raised
        THEN ExportOutcome(Failure(mode.error), NoFile, "none", NoneCreated,
                           output_file, 0)
        ELSE IF origin_tuple.raised
        THEN ExportOutcome(Failure(origin_tuple.error), NoFile, mode.value,
                           NoneCreated, output_file, 0)
        ELSE LET exported(created) ==
                     IF created.raised
                     THEN ExportOutcome(Failure(created.error), NoFile, mode.value,
                                        NoneCreated, output_file, 0)
                     ELSE write_and_report(
                              request, created.value, mode.value,
                              BuildCollections(request, origin_tuple.value,
                                               mode.value),
                              output_file, write_outcome)
             IN  exported(create_ifc_file(project_name, project_coords, mode.value))

\* create_blank_ifc_at_origin(output_path, project_name): the project's
\* origin is {"x": 0.0, "y": 0.0, "z": 0.0}; create_ifc_file is called
\* without a coordinate_mode, which is "absolute" by default; the file is
\* written and the result names the origin.  An exception gives
\* {"success": False, "error": str(error)}.
BlankOrigin ==
    [x |-> JNumber("0.0", Zero), y |-> JNumber("0.0", Zero), z |-> JNumber("0.0", Zero)]
create_blank_ifc_at_origin(output_file, project_name, write_outcome) ==
    LET project_coords == [name |-> project_name, origin |-> BlankOrigin,
                           unit |-> "meters"]
        ifc_file == create_ifc_file(project_name, project_coords, "absolute").value
    IN  IF write_outcome # "ok"
        THEN [result |-> Failure("OSError: write failed"),
              ifc_file |-> ifc_file,
              output_file |-> IF write_outcome = "partial" THEN "partial"
                              ELSE output_file]
        ELSE [result |-> [success |-> TRUE,
                          message |-> "Blank IFC file created successfully at origin (0, 0, 0)",
                          origin |-> BlankOrigin],
              ifc_file |-> ifc_file,
              output_file |-> "complete"]

\* ---------------------------------------------------------------- server
\* Two requests to /api/export-chambers are handled at a time, each in its
\* own thread, and one client reads a progress stream.
Handlers == {1, 2}
Observers == {1}

\* Export identifiers: the one a client may send as "exportId", and the
\* str(uuid.uuid4()) a handler generates, fresh for each request.
ClientIds == {"a"}
Uuid4(h) == IF h = 1 THEN "uuid-1" ELSE "uuid-2"
ExportIds == ClientIds \cup { Uuid4(h) : h \in Handlers }

\* A progress record of export_progress: the progress_data of the update
\* and its timestamp; "writer" remembers the request that stored it.
\* NoRecord stands for export_progress.get(export_id) giving None.
ProgressRecord(type, message, progress, timestamp, writer) ==
    [type |-> type, message |-> message, progress |-> progress,
     timestamp |-> timestamp, writer |-> writer]
NoRecord == ProgressRecord("none", "", 0, 0, 0)

\* update_progress(export_id, progress_data): under export_lock,
\* export_progress[export_id] = {**progress_data, "timestamp": time.time()}.
update_progress_global(store, export_id, progress_data, time) ==
    [id \in DOMAIN store |->
        [progress_data EXCEPT !.timestamp = time]]

update_progress(store, export_id, progress_data, time) ==
    [store EXCEPT ![export_id] = [progress_data EXCEPT !.timestamp = time]]

\* request.get_json() of a request without a body, or with the body {}.
NoData == [nothing |-> TRUE]
\* request.get_json() of a body that is no object, as [1]: it is true, and
\* has no method "get".
NonObject == [list |-> <<1>>]
\* The response of a handler: none yet, or its status and JSON body.
Response(status, success, error) ==
    [status |-> status, success |-> success, error |-> error]
NoResponse == Response(0, FALSE, "")

\* The parameters of export_chambers_to_ifc, and the keywords the handler
\* passes in its call; a keyword that is no parameter makes the call raise
\* TypeError before the function's body runs.
ExportParameters ==
    {"chambers_data", "output_path", "project_coords", "pipes_data",
     "cable_trays_data", "hangers_data", "public_lights_data",
     "light_connections_data", "roads_data", "coordinate_mode"}
HandlerKeywords ==
    {"public_lights_data", "light_connections_data", "roads_data",
     "coordinate_mode", "progress_callback"}
UnexpectedKeyword == "TypeError: unexpected keyword argument 'progress_callback'"

\* ------------------------------------- specification: the transform
\* Points of zero to three coordinates, each a float.
Points == UNION { [1..n -> Floats] : n \in 0..3 }

\* The transform's variables while another specification runs.
CoordIdle ==
    /\ cPoint = <<>>
    /\ cOrigin = <<Zero, Zero, Zero>>
    /\ cMode = "absolute"
    /\ cOut = <<>>
    /\ cStage = "idle"

\* The builders' variables while another specification runs.
BuilderIdle ==
    /\ bKind = "none"
    /\ bData = [id |-> "none"]
    /\ bType = "none"
    /\ bOrigin = <<Zero, Zero, Zero>>
    /\ bMode = "absolute"
    /\ bResult = SkipResult
    /\ bStage = "idle"

\* The export's variables while another specification runs.
ExportIdle ==
    /\ eRequest = [id |-> "none"]
    /\ eFileBefore = "absent"
    /\ eOutcome = ExportOutcome(Failure("none"), NoFile, "none", NoneCreated,
                                "absent", 0)
    /\ eStage = "idle"

\* The server's variables while another specification runs.
\* The server process runs, and has made no temporary file and sent no
\* file yet.
NoTempFiles == tFiles = 0 /\ tSent = 0 /\ tServed = 0 /\ tRunning = TRUE

ServerIdle ==
    /\ export_progress = [id \in ExportIds |-> NoRecord]
    /\ now = 1
    /\ hPc = [h \in Handlers |-> "idle"]
    /\ hData = [h \in Handlers |-> NoData]
    /\ hExportId = [h \in Handlers |-> ""]
    /\ hTemp = [h \in Handlers |-> "none"]
    /\ hResponse = [h \in Handlers |-> NoResponse]
    /\ hStored = [h \in Handlers |-> <<>>]
    /\ sseId = [o \in Observers |-> ""]
    /\ sseStart = [o \in Observers |-> 0]
    /\ sseLast = [o \in Observers |-> 0]
    /\ sseSent = [o \in Observers |-> <<>>]
    /\ ssePc = [o \in Observers |-> "idle"]
    /\ sseProgress = [o \in Observers |-> NoRecord]
    /\ NoTempFiles

FileIdle ==
    /\ fName = ""
    /\ fCoords = [name |-> ""]
    /\ fMode = "absolute"
    /\ fBefore = "absent"
    /\ fFile = NoFile
    /\ fResult = Failure("none")
    /\ fStage = "idle"

CoordInit ==
    /\ cPoint \in Points
    /\ cOrigin \in OriginTuples
    /\ cMode \in CoordinateModes
    /\ cOut = <<>>
    /\ cStage = "input"
    /\ BuilderIdle
    /\ ExportIdle
    /\ ServerIdle
    /\ FileIdle

ConvertPoint ==
    /\ cStage = "input"
    /\ cOut' = convert_point_yup_to_ifc(cPoint, cOrigin, cMode)
    /\ cStage' = "point"
    /\ UNCHANGED <<cPoint, cOrigin, cMode, builderVars, exportVars, serverVars, fileVars>>

ConvertDirection ==
    /\ cStage = "input"
    /\ cOut' = convert_direction_yup_to_ifc(cPoint)
    /\ cStage' = "direction"
    /\ UNCHANGED <<cPoint, cOrigin, cMode, builderVars, exportVars, serverVars, fileVars>>

CoordNext == ConvertPoint \/ ConvertDirection

SpecCoord == CoordInit /\ [][CoordNext]_vars

\* -------------------------------------- specification: the builders
\* One builder is called once on one element description.  Path points lie
\* on the x axis a whole number of metres from the origin, or one step of
\* 1 / SubUnits m from it along x (under a millimetre) and along x and z
\* (over a millimetre); a mesh vertex may lack its third coordinate.
PathPoints ==
    LET Step == Fine(0, 0, 1)
    IN  { <<Num(0, x), Zero, Zero>> : x \in 0..CoordMax }
            \cup { <<Step, Zero, Zero>>, <<Step, Zero, Step>> }
Paths == UNION { [1..n -> PathPoints] : n \in 0..MaxPathLen }
BuilderOrigins ==
    { <<Num(0, x), Zero, Zero>> : x \in 0..1 }
        \cup { <<Num(0, 10), Zero, Num(0, 5)>>, <<Zero, Num(0, 1), Zero>>,
                <<Num(HiMax, 0), Zero, Zero>> }

ElementPositions == PathPoints \cup { <<Num(0, 1), Num(0, 2), Num(0, 3)>> }
PipeInputs ==
    { [pipeId |-> "pipe", points |-> ps] : ps \in Paths }
    \cup { [pipeId |-> "pipe", points |-> ps, startPoint |-> a, endPoint |-> b] :
               ps \in { short \in Paths : Len(short) < 2 },
               a \in PathPoints, b \in PathPoints }
    \cup { [pipeId |-> "pipe"] }
    \cup { [pipeId |-> "pipe", points |-> ps, diameter |-> 200] : ps \in Paths }
    \cup { [pipeId |-> "pipe", diameter |-> 200,
            points |-> <<<<Zero, Zero, Zero>>, <<Num(0, 10), Zero, Zero>>>>] }
MeshInputs ==
    { [type |-> "carriageway", vertices |-> vs, indices |-> ix] :
          vs \in UNION { [1..n -> PathPoints \cup { <<Zero, Zero>> }] :
                             n \in 0..MaxMesh },
          ix \in { <<>>, <<0, 1>>, <<0, 1, 2>> } }
    \cup { [type |-> "carriageway", vertices |-> vs, indices |-> <<0, 1, 2>>,
            raises |-> call] :
               vs \in [1..3 -> PathPoints], call \in {"root.create_entity", "createIfcLocalPlacement",
                         "spatial.assign_container"} }
LidConfigs ==
    { [frameThickness |-> 75],
      [frameThickness |-> 75, shape |-> "circle"],
      [frameThickness |-> 75, shape |-> "rectangle"],
      [frameThickness |-> 50, diameter |-> 600],
      [frameThickness |-> 50, diameter |-> 600, shape |-> "circle"],
      [diameter |-> 450, shape |-> "circle"],
      [frameThickness |-> 50, width |-> 600, shape |-> "rectangle"],
      [width |-> 600] }
ChamberShapes ==
    { [id |-> "chamber"], [id |-> "chamber", shape |-> "rectangle"],
      [id |-> "chamber", shape |-> "circle"],
      [id |-> "chamber", shape |-> "circle", diameter |-> 0],
      [id |-> "chamber", shape |-> "circle", diameter |-> 2000],
      [id |-> "chamber", width |-> 5],
      [id |-> "chamber", width |-> 2000],
      [id |-> "chamber", shape |-> "circle", diameter |-> 5],
      [id |-> "chamber", shape |-> "circle", diameter |-> -500] }
ChamberInputs ==
    { c @@ t : c \in ChamberShapes,
               t \in { [id |-> "chamber"], [wallThickness |-> 1, topThickness |-> -1] }
                     \cup { [topThickness |-> n] : n \in 0..1 }
                     \cup { [wallThickness |-> n] : n \in -1..1 } }
    \cup { c @@ [topThickness |-> n, lidConfig |-> l] :
               c \in ChamberShapes, n \in 0..1, l \in LidConfigs }
    \cup { [id |-> "chamber", position |-> [x |-> Num(0, 10), y |-> Num(0, 2), z |-> Num(0, 5)],
            width |-> 1200, length |-> 1200, coverLevel |-> Num(0, c),
            invertLevel |-> Num(0, i)] @@ t @@ [rotation |-> 0] :
               c \in 0..2, i \in 0..2,
               t \in {[shape |-> "rectangle"], [baseThickness |-> 1],
                      [wallThickness |-> 1],
                      [topThickness |-> 1, rotation |-> 90,
                       lidConfig |-> [frameThickness |-> 50, diameter |-> 600,
                                      shape |-> "circle"]]} }
    \cup { [id |-> "chamber", position |-> [x |-> Num(1, 1)]] }
LightInputs ==
    LET outline == <<<<0, 0>>, <<1, 0>>, <<0, 1>>>>
    IN  { [id |-> "light"], [id |-> "light", type |-> "sign"],
          [id |-> "light", rotation |-> "null"] }
        \cup { [id |-> "light", raises |-> call] : call \in {"createIfcLocalPlacement", "spatial.assign_container",
                             "createIfcStyledItem"} }
        \cup { [id |-> "light", position |-> [x |-> pt[1], y |-> pt[2], z |-> pt[3]]] :
                   pt \in ElementPositions }
        \cup { [id |-> "light", type |-> "sign", signConfig |-> c] :
                   c \in { <<>>, [shape |-> "rectangular"], [shape |-> "circular"],
                           [shape |-> "square", borderWidth |-> 0],
                           [shape |-> "custom"],
                           [shape |-> "custom",
                            exportGeometry |-> <<[vertices |-> outline, color |-> "#FF0000"],
                                                 [vertices |-> SubSeq(outline, 1, 2)]>>],
                           [shape |-> "rectangular",
                            exportGeometry |-> <<[vertices |-> outline]>>] } }
        \cup { [id |-> "light", type |-> "light", signConfig |-> [shape |-> "circular"]],
               [id |-> "light", fixtureConfig |-> [armLength |-> 500]],
               [id |-> "light", fixtureConfig |-> [fixtureCount |-> 2, armLength |-> 1]],
               [id |-> "light", fixtureConfig |-> [style |-> "post-top"]],
               [id |-> "light",
                fixtureConfig |-> [style |-> "decorative-lantern", fixtureCount |-> 2]],
               [id |-> "light", fixtureConfig |-> [style |-> "flood"]],
               [id |-> "light", raises |-> "root.create_entity"],
               [id |-> "light", raises |-> "createIfcShapeRepresentation"],
               [id |-> "light", type |-> "sign", raises |-> "spatial.assign_container",
                signConfig |-> [shape |-> "rectangular",
                                exportGeometry |-> <<[vertices |-> outline]>>]],
               [id |-> "light", type |-> "sign", raises |-> "createIfcStyledItem",
                signConfig |-> [shape |-> "custom",
                                exportGeometry |-> <<[vertices |-> outline]>>]],
               [id |-> "light", type |-> "sign", fixtureConfig |-> [armLength |-> 500]],
               [id |-> "light", poleConfig |-> [baseType |-> "baseplate"]],
               [id |-> "light",
                poleConfig |-> [baseType |-> "baseplate", enableGussets |-> TRUE,
                                gussetCount |-> 2, boltCount |-> 2,
                                baseplateThickness |-> 25]],
               [id |-> "light",
                poleConfig |-> [baseType |-> "concrete-foundation",
                                foundationHasBaseplate |-> TRUE, boltCount |-> 1]],
               [id |-> "light", type |-> "sign",
                poleConfig |-> [baseType |-> "concrete-foundation", height |-> 3],
                signConfig |-> [shape |-> "rectangular"]] }
\* Roads of up to MaxItems components: meshes of 1 and of 3 triangles, a
\* mesh of 2 vertices, one with a vertex of 2 coordinates, kerbs with and
\* without a centerline, and components of no known type or of none.
RoadInputs ==
    LET corners == <<<<Zero, Zero, Zero>>, <<Num(0, 1), Zero, Zero>>,
                     <<Zero, Zero, Num(0, 1)>>>>
        samples ==
            { [type |-> "carriageway", vertices |-> corners, indices |-> <<0, 1, 2>>],
              [type |-> "carriageway", vertices |-> corners,
               indices |-> <<0, 1, 2, 0, 2, 1, 1, 0, 2>>],
              [type |-> "verge", vertices |-> corners, indices |-> <<0, 1, 2>>],
              [type |-> "footpath", vertices |-> SubSeq(corners, 1, 2),
               indices |-> <<0, 1, 1>>],
              [type |-> "wall", vertices |-> <<<<Zero, Zero>>>> \o Tail(corners),
               indices |-> <<0, 1, 2>>],
              [type |-> "kerb", centerline |-> SubSeq(corners, 1, 2)],
              [type |-> "footway", centerline |-> SubSeq(corners, 1, 1)],
              [type |-> "tree", vertices |-> corners, indices |-> <<0, 1, 2>>],
              [vertices |-> corners, indices |-> <<0, 1, 2>>] }
    IN  { [roadId |-> "road"] }
            \cup { [roadId |-> "road", components |-> cs] :
                       cs \in UNION { [1..n -> samples] : n \in 0..MaxItems } }
\* One call of a builder.  The DWG builders have no coordinate_mode and no
\* origin_tuple: bMode is "absolute", the mode create_ifc_file gives a file
\* by default, and bOrigin is the origin of the project_coords they are
\* handed.  Their lines and polylines have points of 3 and of 2
\* coordinates, and the library calls that can fail.
BuilderInit ==
    LET TrayInputs ==
            { [trayId |-> "tray", points |-> ps] : ps \in Paths }
            \cup { [trayId |-> "tray", startPoint |-> a, endPoint |-> b] :
                       a \in PathPoints, b \in PathPoints }
        ConnectionInputs ==
            { [connectionId |-> "connection", points |-> ps] : ps \in Paths }
            \cup { [connectionId |-> "connection"] }
        SweptInputs == { [type |-> "kerb", centerline |-> ps] : ps \in Paths }
        HangerInputs ==
            { [hangerId |-> "hanger"] }
            \cup { [hangerId |-> "hanger", position |-> pt, height |-> h] :
                       pt \in ElementPositions, h \in {500, 750} }
        DwgPoints == ElementPositions \cup { <<Zero, Zero>> }
        DwgCalls == {"root.create_entity", "spatial.assign_container"}
        DwgLineInputs ==
            { [id |-> "line"] }
            \cup { [id |-> "line", start |-> a, end |-> b] :
                       a \in DwgPoints, b \in DwgPoints }
            \cup { [id |-> "line", start |-> a, end |-> b, raises |-> call] :
                       a \in DwgPoints, b \in DwgPoints, call \in DwgCalls }
        DwgPolylineInputs ==
            { [id |-> "poly"] }
            \cup { [id |-> "poly", vertices |-> vs] :
                       vs \in UNION { [1..n -> DwgPoints] : n \in 0..MaxPathLen } }
            \cup { [id |-> "poly", vertices |-> vs, raises |-> call] :
                       vs \in [1..2 -> DwgPoints], call \in DwgCalls }
    IN
    /\ \/ bKind = "pipe" /\ bData \in PipeInputs /\ bType = "none"
             /\ bMode \in CoordinateModes
       \/ bKind = "cable_tray" /\ bData \in TrayInputs /\ bType = "none"
             /\ bMode \in CoordinateModes
       \/ bKind = "hanger" /\ bData \in HangerInputs /\ bType = "none"
             /\ bMode \in CoordinateModes
       \/ bKind = "light_connection" /\ bData \in ConnectionInputs /\ bType = "none"
             /\ bMode \in CoordinateModes
       \/ bKind = "road_swept" /\ bData \in SweptInputs
             /\ bType \in {"kerb", "haunch", "tree"}
             /\ bMode \in CoordinateModes
       \/ bKind = "road_mesh" /\ bData \in MeshInputs /\ bType = "none"
             /\ bMode \in CoordinateModes
       \/ bKind = "road" /\ bData \in RoadInputs /\ bType = "none"
             /\ bMode \in CoordinateModes
       \/ bKind = "chamber" /\ bData \in ChamberInputs /\ bType = "none"
             /\ bMode \in CoordinateModes
       \/ bKind = "public_light" /\ bData \in LightInputs /\ bType = "none"
             /\ bMode \in CoordinateModes
       \/ bKind = "dwg_line" /\ bData \in DwgLineInputs /\ bType = "none"
             /\ bMode = "absolute"
       \/ bKind = "dwg_polyline" /\ bData \in DwgPolylineInputs /\ bType = "none"
             /\ bMode = "absolute"
    /\ bOrigin \in BuilderOrigins
    /\ bResult = SkipResult
    /\ bStage = "input"
    /\ CoordIdle
    /\ ExportIdle
    /\ ServerIdle
    /\ FileIdle

\* What a call leaves alone.
builderInputs == <<bKind, bData, bType, bOrigin, bMode>>

BuildPipe ==
    /\ bStage = "input" /\ bKind = "pipe"
    /\ bResult' = add_pipe_to_ifc(bData, bOrigin, bMode)
    /\ bStage' = "called"
    /\ UNCHANGED <<builderInputs, coordVars, exportVars, serverVars, fileVars>>

BuildCableTray ==
    /\ bStage = "input" /\ bKind = "cable_tray"
    /\ bResult' = add_cable_tray_to_ifc(bData, bOrigin, bMode)
    /\ bStage' = "called"
    /\ UNCHANGED <<builderInputs, coordVars, exportVars, serverVars, fileVars>>

BuildHanger ==
    /\ bStage = "input" /\ bKind = "hanger"
    /\ bResult' = add_hanger_to_ifc(bData, bOrigin, bMode)
    /\ bStage' = "called"
    /\ UNCHANGED <<builderInputs, coordVars, exportVars, serverVars, fileVars>>

BuildLightConnection ==
    /\ bStage = "input" /\ bKind = "light_connection"
    /\ bResult' = add_light_connection_to_ifc(bData, bOrigin, bMode)
    /\ bStage' = "called"
    /\ UNCHANGED <<builderInputs, coordVars, exportVars, serverVars, fileVars>>

BuildRoadSwept ==
    /\ bStage = "input" /\ bKind = "road_swept"
    /\ bResult' = create_road_swept_element(bData, bType, bOrigin, bMode)
    /\ bStage' = "called"
    /\ UNCHANGED <<builderInputs, coordVars, exportVars, serverVars, fileVars>>

BuildRoadMesh ==
    /\ bStage = "input" /\ bKind = "road_mesh"
    /\ bResult' = create_road_mesh_element(bData, bOrigin, bMode)
    /\ bStage' = "called"
    /\ UNCHANGED <<builderInputs, coordVars, exportVars, serverVars, fileVars>>

BuildRoad ==
    /\ bStage = "input" /\ bKind = "road"
    /\ bResult' = add_road_to_ifc(bData, bOrigin, bMode)
    /\ bStage' = "called"
    /\ UNCHANGED <<builderInputs, coordVars, exportVars, serverVars, fileVars>>

BuildChamber ==
    /\ bStage = "input" /\ bKind = "chamber"
    /\ bResult' = add_chamber_to_ifc(bData, bOrigin, bMode)
    /\ bStage' = "called"
    /\ UNCHANGED <<builderInputs, coordVars, exportVars, serverVars, fileVars>>

BuildPublicLight ==
    /\ bStage = "input" /\ bKind = "public_light"
    /\ bResult' = add_public_light_to_ifc(bData, bOrigin, bMode)
    /\ bStage' = "called"
    /\ UNCHANGED <<builderInputs, coordVars, exportVars, serverVars, fileVars>>

BuildDwgLine ==
    /\ bStage = "input" /\ bKind = "dwg_line"
    /\ bResult' = add_dwg_line_to_ifc(bData, [origin |-> bOrigin])
    /\ bStage' = "called"
    /\ UNCHANGED <<builderInputs, coordVars, exportVars, serverVars, fileVars>>

BuildDwgPolyline ==
    /\ bStage = "input" /\ bKind = "dwg_polyline"
    /\ bResult' = add_dwg_polyline_to_ifc(bData, [origin |-> bOrigin])
    /\ bStage' = "called"
    /\ UNCHANGED <<builderInputs, coordVars, exportVars, serverVars, fileVars>>

BuilderNext ==
    \/ BuildPipe \/ BuildCableTray \/ BuildHanger \/ BuildLightConnection
    \/ BuildRoadSwept \/ BuildRoadMesh \/ BuildRoad \/ BuildChamber
    \/ BuildPublicLight \/ BuildDwgLine \/ BuildDwgPolyline

SpecBuilder == BuilderInit /\ [][BuilderNext]_vars

\* ---------------------------------------- specification: the export
\* export_chambers_to_ifc is called once.  The elements of the request are
\* drawn from a few descriptions of each collection: complete ones, and
\* ones whose geometric input is insufficient.
P0 == <<Zero, Zero, Zero>>
P1 == <<Num(0, 1), Zero, Zero>>
Triangle == <<P0, P1, <<Zero, Zero, Num(0, 1)>> >>
Element(collection, data) == [collection |-> collection, data |-> data]
ElementSamples ==
    { Element("chambers_data", [id |-> "chamber"]),
      Element("pipes_data", [pipeId |-> "pipe", points |-> <<P0, P1>>]),
      Element("pipes_data", [pipeId |-> "pipe", points |-> <<P1>>]),
      Element("pipes_data", [pipeId |-> "pipe", points |-> <<P1, P1>>]),
      Element("cable_trays_data", [trayId |-> "tray", points |-> <<P0, P1>>]),
      Element("cable_trays_data", [trayId |-> "tray", points |-> <<P1>>]),
      Element("hangers_data", [hangerId |-> "hanger"]),
      Element("public_lights_data", [id |-> "light"]),
      Element("public_lights_data",
              [id |-> "light", raises |-> "spatial.assign_container"]),
      Element("light_connections_data",
              [connectionId |-> "connection", points |-> <<P1>>]),
      Element("roads_data",
              [roadId |-> "road",
               components |-> <<[type |-> "carriageway", vertices |-> Triangle,
                                 indices |-> <<0, 1, 2>>]>>]),
      Element("roads_data",
              [roadId |-> "road",
               components |-> <<[type |-> "carriageway", vertices |-> Triangle,
                                 indices |-> <<0, 1, 2>>,
                                 raises |-> "spatial.assign_container"]>>]),
      Element("roads_data",
              [roadId |-> "road",
               components |-> <<[type |-> "carriageway", vertices |-> <<P0, P1>>,
                                 indices |-> <<0, 1, 2>>]>>]) }
ElementLists == UNION { [1..n -> ElementSamples] : n \in 0..MaxItems }

\* The coordinate_mode argument: the default, the two modes, other
\* spellings and texts, null, and numbers, among them one that reads as
\* the float 0.0 and one that reads as the least positive float.
RawModes ==
    { JString("absolute"), JString("project"), JString("PROJECT"),
      JString("PROJect"), JString("relative"), JString(""), JString("0"), JNull,
      JNumber("5", Num(0, 5)), JNumber("0", Zero), JNumber("0.0", Zero),
      JNumber("1e-400", Zero), JNumber("25e-325", Zero) }
\* The project_coords argument: without an origin, with one, with one and
\* a north angle given as a text, and with an origin whose x is a text
\* that spells a number or none, or whose z is null.
ProjectInputs ==
    { [name |-> "site"],
      [name |-> "site", origin |-> [x |-> JNumber("1", Num(0, 1))]],
      [name |-> "site", origin |-> [x |-> JNumber("1", Num(0, 1))],
       northAngle |-> JString("90")],
      [name |-> "site", origin |-> [x |-> JString("5")]],
      [name |-> "site", origin |-> [x |-> JString("east")]],
      [name |-> "site", origin |-> [z |-> JNull]] }

\* The elements of one collection, in the order of the request.
RECURSIVE DataOf(_, _)
DataOf(elements, collection) ==
    IF elements = <<>> THEN <<>>
    ELSE (IF Head(elements).collection = collection
          THEN <<Head(elements).data>> ELSE <<>>)
         \o DataOf(Tail(elements), collection)

RequestOf(elements, coordinate_mode, project_coords) ==
    [chambers_data |-> DataOf(elements, "chambers_data"),
     pipes_data |-> DataOf(elements, "pipes_data"),
     cable_trays_data |-> DataOf(elements, "cable_trays_data"),
     hangers_data |-> DataOf(elements, "hangers_data"),
     public_lights_data |-> DataOf(elements, "public_lights_data"),
     light_connections_data |-> DataOf(elements, "light_connections_data"),
     roads_data |-> DataOf(elements, "roads_data"),
     coordinate_mode |-> coordinate_mode,
     project_coords |-> project_coords]

\* Requests: every list of elements in the default mode of a project with
\* an origin, and every mode and project with at most one element.
Requests ==
    { RequestOf(es, JString("absolute"),
                [name |-> "site", origin |-> [x |-> JNumber("1", Num(0, 1))]]) :
          es \in ElementLists }
    \cup { RequestOf(es, cm, pc) :
               es \in { l \in ElementLists : Len(l) <= 1 },
               cm \in RawModes, pc \in ProjectInputs }

WriteOutcomes == {"ok", "unopened", "partial"}

ExportInit ==
    /\ eRequest \in Requests
    /\ eFileBefore \in {"absent", "present"}
    /\ eOutcome = ExportOutcome(Failure("none"), NoFile, "none", NoneCreated,
                                eFileBefore, 0)
    /\ eStage = "request"
    /\ CoordIdle
    /\ BuilderIdle
    /\ ServerIdle
    /\ FileIdle

\* The call export_chambers_to_ifc(...) from its first statement to its
\* return.
Export ==
    /\ eStage = "request"
    /\ \E write_outcome \in WriteOutcomes :
           eOutcome' = export_chambers_to_ifc(eRequest, eFileBefore, write_outcome)
    /\ eStage' = "returned"
    /\ UNCHANGED <<eRequest, eFileBefore, coordVars, builderVars, serverVars, fileVars>>

ExportNext == Export

SpecExport == ExportInit /\ [][ExportNext]_vars

\* ---------------------------------------- specification: the server
\* The bodies of the requests: none, or a few elements, or no element and
\* a client-chosen "exportId".
HandlerBodies ==
    { <<>>,
      <<Element("pipes_data", [pipeId |-> "pipe", points |-> <<P0, P1>>])>>,
      <<Element("cable_trays_data", [trayId |-> "tray", points |-> <<P1>>])>> }
RequestData ==
    { NoData, NonObject }
    \cup { [elements |-> es] : es \in HandlerBodies }
    \cup { [elements |-> <<>>, exportId |-> id] : id \in ClientIds }

ServerInit ==
    /\ export_progress = [id \in ExportIds |-> NoRecord]
    /\ now = 1
    /\ hPc = [h \in Handlers |-> "request"]
    /\ hData \in [Handlers -> RequestData]
    /\ hExportId = [h \in Handlers |-> ""]
    /\ hTemp = [h \in Handlers |-> "none"]
    /\ hResponse = [h \in Handlers |-> NoResponse]
    /\ hStored = [h \in Handlers |-> <<>>]
    /\ sseId \in [Observers -> ExportIds]
    /\ sseStart = [o \in Observers |-> 0]
    /\ sseLast = [o \in Observers |-> 0]
    /\ sseSent = [o \in Observers |-> <<>>]
    /\ ssePc = [o \in Observers |-> "opened"]
    /\ sseProgress = [o \in Observers |-> NoRecord]
    /\ NoTempFiles
    /\ CoordIdle
    /\ BuilderIdle
    /\ ExportIdle
    /\ FileIdle

\* The handler's call update_progress(export_id, progress_data): the store,
\* and the list of the progress_data this request has passed.
Store(h, export_id, type, message, progress) ==
    LET progress_data == ProgressRecord(type, message, progress, 0, h)
    IN  /\ export_progress' =
               update_progress(export_progress, export_id, progress_data, now)
        /\ hStored' = [hStored EXCEPT ![h] = Append(@, progress_data)]

\* export_chambers() from request.get_json() to the first update_progress:
\* 400 for a missing or empty body, else the export id is the request's
\* "exportId" or a fresh uuid4 and the "start" record is stored.  A body
\* that is no object raises at data.get("exportId"); the handler's except
\* finds temp_path and export_id None, stores nothing and answers 500.
Receive(h) ==
    /\ hPc[h] = "request"
    /\ IF hData[h] = NoData
       THEN /\ hPc' = [hPc EXCEPT ![h] = "done"]
            /\ hResponse' = [hResponse EXCEPT ![h] =
                   Response(400, FALSE, "No JSON data provided")]
            /\ UNCHANGED <<export_progress, hExportId, hStored>>
       ELSE IF hData[h] = NonObject
       THEN /\ hPc' = [hPc EXCEPT ![h] = "done"]
            /\ hResponse' = [hResponse EXCEPT ![h] = Response(500, FALSE,
                       "AttributeError: 'list' object has no attribute 'get'")]
            /\ UNCHANGED <<export_progress, hExportId, hStored>>
       ELSE LET export_id == IF Get(hData[h], "exportId", "") # ""
                             THEN hData[h].exportId ELSE Uuid4(h)
            IN  /\ hExportId' = [hExportId EXCEPT ![h] = export_id]
                /\ Store(h, export_id, "start", "Starting export...", 0)
                /\ hPc' = [hPc EXCEPT ![h] = "started"]
                /\ UNCHANGED hResponse
    /\ UNCHANGED <<now, hData, hTemp, sseVars, tempVars, coordVars, builderVars, exportVars,
                   fileVars>>

\* tempfile.mkstemp and the update "Creating IFC file..." with progress 5.
CreateTemp(h) ==
    /\ hPc[h] = "started"
    /\ hTemp' = [hTemp EXCEPT ![h] = "exists"]
    /\ tFiles' = tFiles + 1
    /\ Store(h, hExportId[h], "progress", "Creating IFC file...", 5)
    /\ hPc' = [hPc EXCEPT ![h] = "temp"]
    /\ UNCHANGED <<now, hData, hExportId, hResponse, sseVars, tSent, tServed, tRunning, coordVars,
                   builderVars, exportVars, fileVars>>

\* The rest of export_chambers(): the call of export_chambers_to_ifc with
\* progress_callback=progress_callback and what follows it.  An exception
\* (here the TypeError of the call) is handled by unlinking the temporary
\* file, storing an "error" record with progress 0 and answering 500; so
\* is a result without success.  After a success the handler stores
\* "Finalizing IFC file..." with 95, sends the file, stores "complete" with
\* 100 and leaves the temporary file to atexit.
CallExport(h) ==
    /\ hPc[h] = "temp"
    /\ hPc' = [hPc EXCEPT ![h] = "done"]
    /\ IF HandlerKeywords \ ExportParameters # {}
       THEN /\ hTemp' = [hTemp EXCEPT ![h] = "removed"]
            /\ Store(h, hExportId[h], "error", UnexpectedKeyword, 0)
            /\ hResponse' = [hResponse EXCEPT ![h] =
                   Response(500, FALSE, UnexpectedKeyword)]
       ELSE \E write_outcome \in WriteOutcomes :
            \E result \in {export_chambers_to_ifc(
                               RequestOf(hData[h].elements, JString("absolute"),
                                         [unit |-> "meters"]),
                               "present", write_outcome).result} :
            LET finalizing == ProgressRecord("progress", "Finalizing IFC file...",
                                             95, 0, h)
                complete == ProgressRecord("complete", "Export complete!",
                                           100, 0, h)
            IN  IF ~result.success
                THEN /\ hTemp' = [hTemp EXCEPT ![h] = "removed"]
                     /\ Store(h, hExportId[h], "error", result.error, 0)
                     /\ hResponse' = [hResponse EXCEPT ![h] =
                            Response(500, FALSE, result.error)]
                ELSE /\ export_progress' =
                            update_progress(
                                update_progress(export_progress, hExportId[h],
                                                finalizing, now),
                                hExportId[h], complete, now)
                     /\ hStored' = [hStored EXCEPT ![h] = @ \o <<finalizing, complete>>]
                     /\ hResponse' = [hResponse EXCEPT ![h] = Response(200, TRUE, "")]
                     /\ UNCHANGED hTemp
    /\ tFiles' = IF hTemp'[h] = "removed" THEN tFiles - 1 ELSE tFiles
    /\ tSent' = IF hResponse'[h].status = 200 THEN tSent + 1 ELSE tSent
    /\ UNCHANGED <<now, hData, hExportId, sseVars, tServed, tRunning, coordVars, builderVars, exportVars,
                   fileVars>>

\* generate() in get_export_progress runs in steps: between two of them
\* the handlers and the clock go on.  Its first step sets last_timestamp
\* to 0 and reads the clock into start_time.
Generate(o) ==
    /\ ssePc[o] = "opened"
    /\ sseStart' = [sseStart EXCEPT ![o] = now]
    /\ ssePc' = [ssePc EXCEPT ![o] = "polling"]
    /\ UNCHANGED <<export_progress, now, handlerVars, sseId, sseLast, sseSent,
                   sseProgress, tempVars, coordVars, builderVars, exportVars, fileVars>>

\* The head of a pass of the loop: the clock is read, and more than
\* "timeout" seconds after start_time the stream yields an "error" of its
\* own, after which it breaks.  (MaxSent caps the events of a stream that
\* is still waiting: it pauses until a record is stored or it times out.)
CheckTimeout(o) ==
    /\ ssePc[o] = "polling"
    /\ \/ Len(sseSent[o]) < MaxSent
       \/ export_progress[sseId[o]] # NoRecord
       \/ now - sseStart[o] > timeout
    /\ IF now - sseStart[o] > timeout
       THEN /\ sseSent' = [sseSent EXCEPT ![o] = Append(@,
                   ProgressRecord("error",
                       "Progress timeout - export may have failed", 0, 0, 0))]
            /\ ssePc' = [ssePc EXCEPT ![o] = "yielded"]
       ELSE /\ ssePc' = [ssePc EXCEPT ![o] = "checked"]
            /\ UNCHANGED sseSent
    /\ UNCHANGED <<export_progress, now, handlerVars, sseId, sseStart, sseLast,
                   sseProgress, tempVars, coordVars, builderVars, exportVars, fileVars>>

\* "with export_lock: progress = export_progress.get(export_id)": the
\* record of the stream's export id is read under the lock, which is left
\* before the record is looked at; the handlers may store newer records
\* in between.
ReadProgress(o) ==
    /\ ssePc[o] = "checked"
    /\ sseProgress' = [sseProgress EXCEPT ![o] = export_progress[sseId[o]]]
    /\ ssePc' = [ssePc EXCEPT ![o] = "read"]
    /\ UNCHANGED <<export_progress, now, handlerVars, sseId, sseStart, sseLast, sseSent,
                   tempVars, coordVars, builderVars, exportVars, fileVars>>

\* The rest of the pass up to its yield: the record that was read is
\* yielded when its timestamp is newer than the last one yielded; with no
\* record and nothing yielded yet, "Waiting for export to start..." is
\* yielded, on every pass.  A yield suspends the generator until the
\* event is taken: the handlers and the clock go on meanwhile.  A pass
\* that yields nothing sleeps and is at the head of the loop again.  (The
\* event last yielded is the record the resumed generator tests; the
\* local progress is assigned anew before it is read again and is
\* forgotten here.)
Poll(o) ==
    /\ ssePc[o] = "read"
    /\ sseProgress' = [sseProgress EXCEPT ![o] = NoRecord]
    /\ LET progress == sseProgress[o]
           WaitingEvent ==
               ProgressRecord("start", "Waiting for export to start...", 0, 0, 0)
       IN  IF progress # NoRecord
           THEN IF progress.timestamp > sseLast[o]
                THEN /\ sseLast' = [sseLast EXCEPT ![o] = progress.timestamp]
                     /\ sseSent' = [sseSent EXCEPT ![o] = Append(@, progress)]
                     /\ ssePc' = [ssePc EXCEPT ![o] = "yielded"]
                ELSE /\ ssePc' = [ssePc EXCEPT ![o] = "polling"]
                     /\ UNCHANGED <<sseLast, sseSent>>
           ELSE IF sseLast[o] = 0
                THEN /\ sseSent' = [sseSent EXCEPT ![o] = Append(@, WaitingEvent)]
                     /\ ssePc' = [ssePc EXCEPT ![o] = "yielded"]
                     /\ UNCHANGED sseLast
                ELSE /\ ssePc' = [ssePc EXCEPT ![o] = "polling"]
                     /\ UNCHANGED <<sseLast, sseSent>>
    /\ UNCHANGED <<export_progress, now, handlerVars, sseId, sseStart, tempVars, coordVars,
                   builderVars, exportVars, fileVars>>

\* The stream is resumed after an event that does not end it, a stored
\* record of another type than "complete" and "error" or the waiting
\* event: the type is tested, the generator sleeps 0.5 s and is at the
\* head of the loop again.
Resume(o) ==
    /\ ssePc[o] = "yielded"
    /\ sseSent[o][Len(sseSent[o])].type \notin {"complete", "error"}
    /\ ssePc' = [ssePc EXCEPT ![o] = "polling"]
    /\ UNCHANGED <<export_progress, now, handlerVars, sseId, sseStart, sseLast, sseSent,
                   sseProgress, tempVars, coordVars, builderVars, exportVars, fileVars>>

\* The stream is resumed after its last event, a stored record of type
\* "complete" or "error" or the error of its own timeout, and breaks:
\* generate() returns and the response ends.
Break(o) ==
    /\ ssePc[o] = "yielded"
    /\ sseSent[o][Len(sseSent[o])].type \in {"complete", "error"}
    /\ ssePc' = [ssePc EXCEPT ![o] = "closed"]
    /\ UNCHANGED <<export_progress, now, handlerVars, sseId, sseStart, sseLast, sseSent,
                   sseProgress, tempVars, coordVars, builderVars, exportVars, fileVars>>

\* time.time() moves on: by a second or by the timeout from one of the
\* first readings, or to the readings that matter to a running stream, the
\* last one within its timeout and the first one past it.
Tick ==
    /\ now' \in (IF now < MaxTime THEN {now + 1} ELSE {})
                    \cup (IF now <= MaxTime THEN {now + timeout} ELSE {})
                    \cup { t \in UNION { {sseStart[o] + timeout, sseStart[o] + timeout + 1} :
                                         o \in { r \in Observers :
                                                   ssePc[r] \in {"polling", "checked", "read",
                                                                 "yielded"} } } :
                             t > now }
    /\ UNCHANGED <<export_progress, handlerVars, sseVars, tempVars, coordVars,
                   builderVars, exportVars, fileVars>>

ServerNext ==
    \/ \E h \in Handlers : Receive(h)
    \/ \E h \in Handlers : CreateTemp(h)
    \/ \E h \in Handlers : CallExport(h)
    \/ \E o \in Observers : Generate(o)
    \/ \E o \in Observers : CheckTimeout(o)
    \/ \E o \in Observers : ReadProgress(o)
    \/ \E o \in Observers : Poll(o)
    \/ \E o \in Observers : Resume(o)
    \/ \E o \in Observers : Break(o)
    \/ Tick

SpecServer == ServerInit /\ [][ServerNext]_vars

\* The server with its scheduling: requests with no elements, with or
\* without a client-chosen export id.  Flask runs each handler's thread to
\* its end, the response is consumed so that generate() is resumed after
\* each event and after each sleep of 0.5 s, and the clock goes on: each
\* step that can be taken is taken in the end.
StreamInit ==
    /\ ServerInit
    /\ \A h \in Handlers : Get(hData[h], "elements", <<>>) = <<>>
SpecStream ==
    /\ StreamInit /\ [][ServerNext]_vars
    /\ WF_vars(Tick)
    /\ \A h \in Handlers :
           WF_vars(Receive(h)) /\ WF_vars(CreateTemp(h)) /\ WF_vars(CallExport(h))
    /\ \A o \in Observers :
           /\ WF_vars(Generate(o)) /\ WF_vars(CheckTimeout(o))
           /\ WF_vars(ReadProgress(o)) /\ WF_vars(Poll(o))
           /\ WF_vars(Resume(o)) /\ WF_vars(Break(o))

\* ------------------------------ specification: the temporary files
\* A request to one of the two endpoints with its body.  The bodies of
\* the requests to /api/create-blank-ifc: none, no object, a project
\* name, an empty one, and another key.  Those of the requests to
\* /api/dwg-to-ifc: none, no object, no path, a path of two vertices, one
\* of a single vertex, and one with a vertex of a single coordinate.
TempRequests ==
    LET BlankBodies ==
            { NoData, NonObject, [projectName |-> "site"], [projectName |-> ""],
              [other |-> "key"] }
        DwgBodies ==
            { NoData, NonObject, [connectedPaths |-> <<>>],
              [connectedPaths |-> <<[id |-> "path", vertices |-> <<P0, P1>>]>>],
              [connectedPaths |-> <<[id |-> "path", vertices |-> <<P0>>]>>],
              [connectedPaths |-> <<[id |-> "path", vertices |-> <<P0, <<Zero>>>>]>>] }
    IN  { [route |-> "/api/create-blank-ifc", json |-> body] : body \in BlankBodies }
        \cup { [route |-> "/api/dwg-to-ifc", json |-> body] : body \in DwgBodies }

\* export_dwg_lines_to_ifc(connected_paths_data, output_path, ...): the
\* file is created, add_connected_path_to_ifc adds each path (it returns
\* None for fewer than 2 vertices, and float(vertex[2]) raises IndexError
\* on a vertex of fewer than 3 coordinates), and the file is written; any
\* exception gives the result without success.
export_dwg_lines_to_ifc(connected_paths_data, write_outcome) ==
    IF \E i \in 1..Len(connected_paths_data) :
           LET vertices == Get(connected_paths_data[i], "vertices", <<>>)
           IN  Len(vertices) >= 2 /\ \E k \in 1..Len(vertices) : Len(vertices[k]) < 3
    THEN Failure("IndexError: list index out of range")
    ELSE IF write_outcome # "ok" THEN Failure("OSError: write failed")
    ELSE [success |-> TRUE, paths_count |-> Len(connected_paths_data)]

TempInit ==
    /\ export_progress = [id \in ExportIds |-> NoRecord]
    /\ now = 1
    /\ hPc = [h \in Handlers |-> "request"]
    /\ hData \in [Handlers -> TempRequests]
    /\ hExportId = [h \in Handlers |-> ""]
    /\ hTemp = [h \in Handlers |-> "none"]
    /\ hResponse = [h \in Handlers |-> NoResponse]
    /\ hStored = [h \in Handlers |-> <<>>]
    /\ sseId = [o \in Observers |-> ""]
    /\ sseStart = [o \in Observers |-> 0]
    /\ sseLast = [o \in Observers |-> 0]
    /\ sseSent = [o \in Observers |-> <<>>]
    /\ ssePc = [o \in Observers |-> "idle"]
    /\ sseProgress = [o \in Observers |-> NoRecord]
    /\ NoTempFiles
    /\ CoordIdle
    /\ BuilderIdle
    /\ ExportIdle
    /\ FileIdle

\* create_blank_ifc(): data = request.get_json() or {}; a body that is no
\* object raises at data.get before any file is made.  Else mkstemp, the
\* call of create_blank_ifc_at_origin, and on a failed result the file is
\* unlinked and the answer is 500; on success the file is sent and its
\* removal is registered with atexit, so the file stays.
ServeBlankIfc(h) ==
    /\ tRunning /\ hPc[h] = "request"
    /\ hData[h].route = "/api/create-blank-ifc"
    /\ hPc' = [hPc EXCEPT ![h] = "done"]
    /\ tServed' = tServed + 1
    /\ IF hData[h].json = NonObject
       THEN /\ hResponse' = [hResponse EXCEPT ![h] =
                   Response(500, FALSE,
                       "AttributeError: 'list' object has no attribute 'get'")]
            /\ UNCHANGED <<hTemp, tFiles, tSent>>
       ELSE \E write_outcome \in WriteOutcomes :
            LET project_name == Get(hData[h].json, "projectName", DEFAULT_PROJECT_NAME)
                result == create_blank_ifc_at_origin("present", project_name,
                                                     write_outcome).result
            IN  IF ~result.success
                THEN /\ hTemp' = [hTemp EXCEPT ![h] = "removed"]
                     /\ hResponse' = [hResponse EXCEPT ![h] =
                            Response(500, FALSE, result.error)]
                     /\ UNCHANGED <<tFiles, tSent>>
                ELSE /\ hTemp' = [hTemp EXCEPT ![h] = "exists"]
                     /\ hResponse' = [hResponse EXCEPT ![h] = Response(200, TRUE, "")]
                     /\ tFiles' = tFiles + 1
                     /\ tSent' = tSent + 1
    /\ UNCHANGED <<export_progress, now, hData, hExportId, hStored, sseVars,
                   tRunning, coordVars, builderVars, exportVars, fileVars>>

\* dwg_to_ifc(): 400 for a missing or empty body and for a body without
\* paths; a body that is no object raises at data.get before any file is
\* made.  Else mkstemp, the call of export_dwg_lines_to_ifc, and on a
\* failed result the file is unlinked and the answer is 500; on success
\* the file is sent and its removal is registered with atexit, so the
\* file stays.
ServeDwgToIfc(h) ==
    /\ tRunning /\ hPc[h] = "request"
    /\ hData[h].route = "/api/dwg-to-ifc"
    /\ hPc' = [hPc EXCEPT ![h] = "done"]
    /\ tServed' = tServed + 1
    /\ IF hData[h].json = NoData
       THEN /\ hResponse' = [hResponse EXCEPT ![h] =
                   Response(400, FALSE, "No JSON data provided")]
            /\ UNCHANGED <<hTemp, tFiles, tSent>>
       ELSE IF hData[h].json = NonObject
       THEN /\ hResponse' = [hResponse EXCEPT ![h] =
                   Response(500, FALSE,
                       "AttributeError: 'list' object has no attribute 'get'")]
            /\ UNCHANGED <<hTemp, tFiles, tSent>>
       ELSE IF Get(hData[h].json, "connectedPaths", <<>>) = <<>>
       THEN /\ hResponse' = [hResponse EXCEPT ![h] =
                   Response(400, FALSE, "No connected paths provided")]
            /\ UNCHANGED <<hTemp, tFiles, tSent>>
       ELSE \E write_outcome \in WriteOutcomes :
            LET result == export_dwg_lines_to_ifc(hData[h].json.connectedPaths,
                                                  write_outcome)
            IN  IF ~result.success
                THEN /\ hTemp' = [hTemp EXCEPT ![h] = "removed"]
                     /\ hResponse' = [hResponse EXCEPT ![h] =
                            Response(500, FALSE, result.error)]
                     /\ UNCHANGED <<tFiles, tSent>>
                ELSE /\ hTemp' = [hTemp EXCEPT ![h] = "exists"]
                     /\ hResponse' = [hResponse EXCEPT ![h] = Response(200, TRUE, "")]
                     /\ tFiles' = tFiles + 1
                     /\ tSent' = tSent + 1
    /\ UNCHANGED <<export_progress, now, hData, hExportId, hStored, sseVars,
                   tRunning, coordVars, builderVars, exportVars, fileVars>>

\* The next request reaches a handler thread that has answered.
NextRequest(h) ==
    /\ tRunning /\ hPc[h] = "done" /\ tServed < MaxServed
    /\ hPc' = [hPc EXCEPT ![h] = "request"]
    /\ \E data \in TempRequests : hData' = [hData EXCEPT ![h] = data]
    /\ hTemp' = [hTemp EXCEPT ![h] = "none"]
    /\ hResponse' = [hResponse EXCEPT ![h] = NoResponse]
    /\ UNCHANGED <<export_progress, now, hExportId, hStored, sseVars, tempVars,
                   coordVars, builderVars, exportVars, fileVars>>

\* The interpreter exits between two requests: the functions registered
\* with atexit run and unlink the files that were sent.
Exit ==
    /\ tRunning /\ \A h \in Handlers : hPc[h] = "done"
    /\ tRunning' = FALSE
    /\ tFiles' = 0
    /\ hTemp' = [h \in Handlers |-> IF hTemp[h] = "exists" THEN "removed" ELSE hTemp[h]]
    /\ UNCHANGED <<export_progress, now, hPc, hData, hExportId, hResponse, hStored,
                   sseVars, tSent, tServed, coordVars, builderVars, exportVars,
                   fileVars>>

TempNext ==
    \/ \E h \in Handlers : ServeBlankIfc(h)
    \/ \E h \in Handlers : ServeDwgToIfc(h)
    \/ \E h \in Handlers : NextRequest(h)
    \/ Exit

\* Flask runs each handler to its end; nothing makes a client send a next
\* request, or the server exit.
SpecTemp ==
    /\ TempInit /\ [][TempNext]_vars
    /\ \A h \in Handlers : WF_vars(ServeBlankIfc(h)) /\ WF_vars(ServeDwgToIfc(h))

\* ------------------------------------- specification: the file
\* The arguments of create_ifc_file and create_blank_ifc_at_origin: a
\* project name (none is ""), the project's coordinates and the mode as
\* the caller wrote it.
FileCoords ==
    LET origins == { NoOrigin,
                     [x |-> JNumber("1", Num(0, 1))],
                     [x |-> JNumber("1", Num(0, 1)), y |-> JNumber("2", Num(0, 2)),
                      z |-> JNumber("3", Num(0, 3))],
                     BlankOrigin }
    IN  { [name |-> "site"], [name |-> "site", unit |-> "mm"],
          [name |-> "site", unit |-> "Feet", elevation |-> JNumber("12.5", Num(0, 12))] }
            \cup { [name |-> "site", origin |-> o] : o \in origins }
            \cup { [name |-> "site", origin |-> o,
                    northAngle |-> JNumber("90", Num(0, 90))] : o \in origins }
            \cup { [name |-> "site", origin |-> origins_xyz, northAngle |-> a] :
                       origins_xyz \in { o \in origins : DOMAIN o = {"x", "y", "z"} },
                       a \in { JNull, JNumber("0", Zero), JNumber("180", Num(0, 180)),
                               JNumber("270", Num(0, 270)), JNumber("360", Num(0, 360)),
                               JNumber("-90.0", Num(0, -90)), JNumber("-0.0", Zero) } }
            \cup { [name |-> "site", origin |-> o, northAngle |-> JString("90")] :
                       o \in origins }
            \cup { [name |-> n, origin |-> BlankOrigin, epsgCode |-> e] :
                       n \in {"", "site"}, e \in {"", "EPSG:27700"} }
            \cup { [name |-> "site", unit |-> "FEET", origin |-> o] : o \in origins }

FileInit ==
    /\ fName \in {"", "site"}
    /\ fCoords \in FileCoords
    /\ fMode \in {"absolute", "project", "PROJECT"}
    /\ fBefore \in {"absent", "present"}
    /\ fFile = NoFile
    /\ fResult = Failure("none")
    /\ fStage = "arguments"
    /\ CoordIdle
    /\ BuilderIdle
    /\ ExportIdle
    /\ ServerIdle

\* The call create_ifc_file(project_name, project_coords, coordinate_mode):
\* it returns the file, or raises and returns none.
CreateIfcFile ==
    /\ fStage = "arguments"
    /\ \E created \in {create_ifc_file(fName, fCoords, fMode)} :
           /\ fFile' = IF created.raised THEN NoFile ELSE created.value
           /\ fResult' = IF created.raised THEN Failure(created.error) ELSE fResult
           /\ fStage' = IF created.raised THEN "raised" ELSE "created"
    /\ UNCHANGED <<fName, fCoords, fMode, fBefore, coordVars,
                   builderVars, exportVars, serverVars>>

\* The call create_blank_ifc_at_origin(output_path, project_name).
CreateBlankIfcAtOrigin ==
    /\ fStage = "arguments"
    /\ \E write_outcome \in WriteOutcomes :
           LET blank == create_blank_ifc_at_origin(fBefore, fName, write_outcome)
           IN  /\ fFile' = blank.ifc_file
               /\ fResult' = blank.result
               /\ fBefore' = blank.output_file
    /\ fStage' = "blank"
    /\ UNCHANGED <<fName, fCoords, fMode, coordVars, builderVars, exportVars,
                   serverVars>>

FileNext == CreateIfcFile \/ CreateBlankIfcAtOrigin

SpecFile == FileInit /\ [][FileNext]_vars

\* ================================================================ claims
\* An element whose geometric input is insufficient: a path of fewer than
\* 2 points or of zero-length segments only, a road whose mesh components
\* have fewer than 3 vertices or indices.
ZeroLengthPath(points) ==
    \A i \in 1..(Len(points) - 1) : points[i] = points[i + 1]
InsufficientComponent(component) ==
    \/ Len(Get(component, "vertices", <<>>)) < 3
    \/ Len(Get(component, "indices", <<>>)) < 3
Insufficient(collection, data) ==
    \/ /\ collection \in {"pipes_data", "cable_trays_data", "light_connections_data"}
       /\ "startPoint" \notin DOMAIN data
       /\ \/ Len(Get(data, "points", <<>>)) < 2
          \/ ZeroLengthPath(Get(data, "points", <<>>))
    \/ /\ collection = "roads_data"
       /\ \A i \in 1..Len(data.components) : InsufficientComponent(data.components[i])

\* An element the builder of its collection turns into IFC entities.
Buildable(collection, data) ==
    LET built == Build(collection, data, <<Zero, Zero, Zero>>, "absolute")
    IN  ~built.raised /\ built.returned

\* The export was called with a request that is in order but for elements
\* of insufficient geometric input: a mode and an origin the export accepts,
\* every element buildable or insufficient, and a write that works.
OnlyInsufficientInput ==
    /\ eStage = "returned"
    /\ eRequest.coordinate_mode \in {JString("absolute"), JString("project")}
    /\ ~get_project_origin_tuple(eRequest.project_coords).raised
    /\ \A k \in CollectionNames : \A i \in 1..Len(eRequest[k]) :
           Buildable(k, eRequest[k][i]) \/ Insufficient(k, eRequest[k][i])
    /\ eOutcome.writes = 0 \/ eOutcome.output_file = "complete"

\* The entities of the elements of the request that are buildable, in the
\* order of the export.
ExpectedEntities(request, origin_tuple, coordinate_mode) ==
    Flatten([c \in 1..Len(Collections) |->
        Flatten([i \in 1..Len(request[Collections[c]]) |->
            IF Buildable(Collections[c], request[Collections[c]][i])
            THEN Build(Collections[c], request[Collections[c]][i],
                       origin_tuple, coordinate_mode).entities
            ELSE <<>>])])

\* C1: an element with insufficient geometric input is skipped without
\* aborting the export: all other elements are still processed, the file
\* is written and the result has success=true.
C1_InsufficientSkipped ==
    OnlyInsufficientInput =>
        /\ eOutcome.result.success
        /\ eOutcome.output_file = "complete"
        /\ eOutcome.ifc_file.entities =
               ExpectedEntities(eRequest,
                                get_project_origin_tuple(eRequest.project_coords).value,
                                eOutcome.mode)

\* The scenario of the claim: no chambers and one pipe with a single point
\* gave success=true, chambers_count=0 and no pipe created.
C1_SkipWitness ==
    /\ eStage = "returned"
    /\ eRequest.chambers_data = <<>>
    /\ Len(eRequest.pipes_data) = 1
    /\ Len(eRequest.pipes_data[1].points) = 1
    /\ eOutcome.result.success
    /\ eOutcome.result.chambers_count = 0
    /\ eOutcome.created["pipes_data"] = 0
    /\ eOutcome.ifc_file.entities = <<>>

\* C3: the export writes the output file at most once, only after all
\* collections were processed without a fatal exception; whenever it
\* returns success=false the result carries the error message and no output
\* file is left at the output path.
C3_NoFileOnFailure ==
    eStage = "returned" =>
        /\ eOutcome.writes <= 1
        /\ eOutcome.writes = 1 => DOMAIN eOutcome.created = CollectionNames
        /\ ~eOutcome.result.success =>
               /\ "error" \in DOMAIN eOutcome.result
               /\ eOutcome.output_file = "absent"

\* A builder raised after other elements were built: nothing was written,
\* the result carries the error, and the path that held no file holds none.
C3_FatalWitness ==
    /\ eStage = "returned"
    /\ eFileBefore = "absent"
    /\ ~eOutcome.result.success
    /\ eOutcome.result.error = "UnboundLocalError: solid"
    /\ Len(eOutcome.ifc_file.entities) > 1
    /\ eOutcome.writes = 0
    /\ eOutcome.output_file = "absent"

\* The keys of the result that count the elements of a collection.
CountKeys ==
    [chambers_data |-> {"chambers_count"},
     pipes_data |-> {"pipes_count"},
     cable_trays_data |-> {"cable_trays_count"},
     hangers_data |-> {"hangers_count"},
     public_lights_data |-> {"public_lights_count"},
     light_connections_data |-> {"light_connections_count"},
     roads_data |-> {"roads_count", "road_components_count"}]

\* C7: the result reports, for every category, both the number of items
\* requested and the number created, so that a skipped element makes the
\* created count smaller than the requested count; it carries success, and
\* an error message when success=false.
C7_RequestedAndCreated ==
    eStage = "returned" =>
        /\ "success" \in DOMAIN eOutcome.result
        /\ ~eOutcome.result.success => "error" \in DOMAIN eOutcome.result
        /\ eOutcome.result.success =>
               \A k \in CollectionNames :
                   /\ \E key \in CountKeys[k] :
                          eOutcome.result[key] = Len(eRequest[k])
                   /\ \E key \in CountKeys[k] :
                          eOutcome.result[key] = eOutcome.created[k]

\* An export that skipped one of two pipes succeeded and reports
\* pipes_count = 2.
C7_CountWitness ==
    /\ eStage = "returned"
    /\ eOutcome.result.success
    /\ Len(eRequest.pipes_data) = 2
    /\ eOutcome.created["pipes_data"] = 1
    /\ eOutcome.result.pipes_count = 2

\* A coordinate-mode value that is neither mode, read without regard to
\* case as the export reads it: any other text, any value that is no text.
UnrecognizedMode(v) ==
    v.json # "string" \/ Lower(v.s) \notin {"absolute", "project"}

\* The export was called with a request that is in order but for its
\* coordinate mode: an origin the export accepts, buildable elements, and
\* a write that works.
OnlyModeUnrecognized ==
    /\ eStage = "returned"
    /\ UnrecognizedMode(eRequest.coordinate_mode)
    /\ ~get_project_origin_tuple(eRequest.project_coords).raised
    /\ \A k \in CollectionNames : \A i \in 1..Len(eRequest[k]) :
           Buildable(k, eRequest[k][i])
    /\ eOutcome.writes = 0 \/ eOutcome.output_file = "complete"

\* C10: every coordinate-mode value other than 'absolute' or 'project' (an
\* unrecognized string, a non-string value, a missing value) makes the
\* export run in absolute mode and succeed: it never fails and never
\* subtracts the origin.
C10_UnrecognizedModeIsAbsolute ==
    OnlyModeUnrecognized =>
        /\ eOutcome.result.success
        /\ eOutcome.mode = "absolute"
        /\ eOutcome.ifc_file.georeference = NoGeoreference
        /\ eOutcome.ifc_file.entities =
               ExpectedEntities(eRequest,
                                get_project_origin_tuple(eRequest.project_coords).value,
                                "absolute")

\* The text "relative" with a project origin of x = 1: the export ran in
\* absolute mode and the pipe starts at x = 0, the origin not subtracted.
C10_FallbackWitness ==
    /\ eStage = "returned"
    /\ eRequest.coordinate_mode = JString("relative")
    /\ "origin" \in DOMAIN eRequest.project_coords
    /\ eOutcome.result.success
    /\ eOutcome.mode = "absolute"
    /\ Len(eOutcome.ifc_file.entities) = 1
    /\ eOutcome.ifc_file.entities[1].kind = "pipe"
    /\ eOutcome.ifc_file.entities[1].solids[1].from = <<Zero, Zero, Zero>>

\* The handler part of C3: a handler that answered 500 has left no
\* temporary file: it made none, or it removed the one it made.
C3_HandlerRemovedTemp ==
    \A h \in Handlers :
        hResponse[h].status = 500 => hTemp[h] \in {"none", "removed"}

\* The result export_chambers_to_ifc gives for the body of request h when
\* it is called without progress reporting and the write works.
WithoutProgress(h) ==
    export_chambers_to_ifc(
        RequestOf(hData[h].elements, JString("absolute"), [unit |-> "meters"]),
        "present", "ok").result

\* C4: progress reporting never raises into the export path: for every
\* accepted request, passing the progress callback and updating the
\* progress leave the outcome of the export what it is without them.
C4_ProgressNeverRaises ==
    \A h \in Handlers :
        (hPc[h] = "done" /\ hData[h] \notin {NoData, NonObject}) =>
            /\ hResponse[h].success = WithoutProgress(h).success
            /\ (hResponse[h].status = 200) = WithoutProgress(h).success

\* A request whose export fails without progress reporting as well (a
\* cable tray of one point) was answered 500.
C4_FailureWitness ==
    \E h \in Handlers :
        /\ hPc[h] = "done" /\ hData[h] \notin {NoData, NonObject}
        /\ ~WithoutProgress(h).success
        /\ hResponse[h].status = 500

\* C5: the progress percentage of the successive records one request
\* stores never decreases, on every path through the handler.
C5_ProgressMonotone ==
    \A h \in Handlers :
        \A i \in 1..Len(hStored[h]) : \A j \in 1..Len(hStored[h]) :
            i < j => hStored[h][i].progress <= hStored[h][j].progress

\* A request stored its first two records, with progress 0 and then 5.
C5_RisingWitness ==
    \E h \in Handlers :
        /\ Len(hStored[h]) = 2
        /\ hStored[h][1].progress = 0
        /\ hStored[h][2].progress = 5

\* Export h1's record, and the events of every stream of h1's export id,
\* hold nothing that request h2 stored.
Separate(h1, h2) ==
    /\ export_progress[hExportId[h1]].writer # h2
    /\ \A o \in Observers :
           sseId[o] = hExportId[h1] =>
               \A k \in 1..Len(sseSent[o]) : sseSent[o][k].writer # h2

\* C6 as stated: for any two concurrent exports, an update of one never
\* changes the record read for the other, and a stream of one never
\* receives a record written by the other.
C6_NoCrossTalkAll ==
    \A h1 \in Handlers : \A h2 \in Handlers \ {h1} :
        hExportId[h1] # "" => Separate(h1, h2)

\* C6 as amended: the same for any two concurrent exports whose export
\* identifiers differ.
C6_NoCrossTalkDistinctIds ==
    \A h1 \in Handlers : \A h2 \in Handlers \ {h1} :
        (hExportId[h1] # "" /\ hExportId[h1] # hExportId[h2]) => Separate(h1, h2)

\* Two exports with different identifiers ran to their end while a stream
\* of the first one's identifier received its records up to the last.
C6_Witness ==
    /\ hExportId[1] = "a" /\ hExportId[2] = "uuid-2"
    /\ hPc[1] = "done" /\ hPc[2] = "done"
    /\ export_progress["uuid-2"].writer = 2
    /\ sseId[1] = "a" /\ ssePc[1] = "closed"
    /\ Len(sseSent[1]) >= 2
    /\ sseSent[1][Len(sseSent[1])].writer = 1

\* The path a builder call was given: the "points" of a pipe, cable tray
\* or light connection that names no start and end point, the "centerline"
\* of a swept road component.
GivenPath(kind, data) ==
    IF kind = "road_swept" THEN Get(data, "centerline", <<>>)
    ELSE Get(data, "points", <<>>)

ShortInput ==
    \/ /\ bKind \in {"pipe", "cable_tray", "light_connection", "road_swept"}
       /\ "startPoint" \notin DOMAIN bData
       /\ Len(GivenPath(bKind, bData)) < 2
    \/ /\ bKind = "road_mesh"
       /\ Len(Get(bData, "vertices", <<>>)) < 3

\* C2: a path builder called with a path of fewer than 2 points, and the
\* mesh builder called with fewer than 3 vertices, produces no solid and no
\* element and does not raise.
C2_ShortInputSkipped ==
    (bStage = "called" /\ ShortInput) =>
        /\ ~bResult.raised
        /\ ~bResult.returned
        /\ bResult.entities = <<>>

\* A light connection of one point was skipped: nothing raised, nothing
\* created.
C2_SkipWitness ==
    /\ bStage = "called" /\ bKind = "light_connection"
    /\ Len(GivenPath(bKind, bData)) = 1
    /\ bResult = SkipResult

\* The coordinates of a point as the claims read them: a missing one is 0.
Px(p) == IF Len(p) >= 1 THEN p[1] ELSE Zero
Py(p) == IF Len(p) >= 2 THEN p[2] ELSE Zero
Pz(p) == IF Len(p) >= 3 THEN p[3] ELSE Zero
ZeroOrigin == <<Zero, Zero, Zero>>

\* C8: convert_point_yup_to_ifc returns (px-ox, pz-oz, py-oy) in project
\* mode and (px, pz, py) in absolute mode, a missing coordinate counting as
\* 0; convert_direction_yup_to_ifc applies the same permutation with no
\* translation; with a zero origin both modes give (px, pz, py).
C8_AxisRemap ==
    /\ (cStage = "point" /\ cMode = "project") =>
          cOut = <<FSub(Px(cPoint), cOrigin[1]),
                   FSub(Pz(cPoint), cOrigin[3]),
                   FSub(Py(cPoint), cOrigin[2])>>
    /\ (cStage = "point" /\ cMode = "absolute") =>
          cOut = <<Px(cPoint), Pz(cPoint), Py(cPoint)>>
    /\ cStage = "direction" =>
          cOut = <<Px(cPoint), Pz(cPoint), Py(cPoint)>>
    /\ (cStage = "point" /\ cOrigin = ZeroOrigin) =>
          cOut = <<Px(cPoint), Pz(cPoint), Py(cPoint)>>

\* A project-mode conversion of a two-coordinate point whose missing z
\* became 0 and was moved by a non-zero origin z.
C8_Witness ==
    /\ cStage = "point" /\ cMode = "project"
    /\ Len(cPoint) = 2
    /\ cOrigin[3] # Zero /\ cOrigin[2] = Zero
    /\ cPoint[2] # Zero
    /\ cOut[2] # Zero /\ cOut[3] = cPoint[2]

\* The inverse of the conversion: the inverse axis permutation of q, then
\* + o componentwise, in float arithmetic.
RoundTrip(q, o) == <<FAdd(q[1], o[1]), FAdd(q[3], o[2]), FAdd(q[2], o[3])>>
PointOf(p) == <<Px(p), Py(p), Pz(p)>>

\* The subtraction p[i] - o[i] is exact: its real result is a float.
SubExact(p, o) ==
    \A i \in 1..3 :
        LET a == PointOf(p)[i]
        IN  FSub(a, o[i]) = Fine(a.hi - o[i].hi, a.lo - o[i].lo,
                                 Sub(a) - Sub(o[i]))

\* C9 as stated: the round trip of a project-mode conversion reproduces p,
\* for all points p and origins o.
C9_RoundTripAll ==
    (cStage = "point" /\ cMode = "project") =>
        RoundTrip(cOut, cOrigin) = PointOf(cPoint)

\* C9 as amended: the round trip reproduces p whenever no subtraction
\* p[i] - o[i] of the conversion rounds.
C9_RoundTripWhenExact ==
    (cStage = "point" /\ cMode = "project" /\ SubExact(cPoint, cOrigin)) =>
        RoundTrip(cOut, cOrigin) = PointOf(cPoint)

\* A project-mode conversion with exact subtractions that moved the point
\* in all three coordinates by different amounts.
C9_Witness ==
    /\ cStage = "point" /\ cMode = "project"
    /\ Len(cPoint) = 3
    /\ SubExact(cPoint, cOrigin)
    /\ cOrigin[2] # cOrigin[3]
    /\ \A i \in 1..3 : cOrigin[i] # Zero
    /\ cOut # <<cPoint[1], cPoint[3], cPoint[2]>>

\* The map conversion of a project origin: Eastings from x, Northings from
\* z and OrthogonalHeight from y, each 0 when the origin has no such key.
SurveyOffsets(origin) ==
    [Eastings |-> Get(origin, "x", JNumber("0.0", Zero)),
     Northings |-> Get(origin, "z", JNumber("0.0", Zero)),
     OrthogonalHeight |-> Get(origin, "y", JNumber("0.0", Zero))]

\* C11 as stated: create_ifc_file attaches the survey georeferencing
\* whenever the mode is project and never when it is absolute, and the
\* storey placement is the identity in both modes.
C11_GeoreferencedWheneverProject ==
    fStage = "created" =>
        /\ fFile.storey_placement = "identity"
        /\ fMode = "project" => fFile.georeference # NoGeoreference
        /\ fMode = "absolute" => fFile.georeference = NoGeoreference

\* C11 as amended: create_ifc_file raises TypeError and returns no file
\* exactly when the mode is project, the project has a non-empty origin
\* and its north angle is a text; a file it returns carries in project
\* mode the offsets of the project origin when the project has a
\* non-empty origin and no georeferencing otherwise, and never any in
\* absolute mode; its storey placement is the identity in both modes.
C11_GeoreferencedProjectWithOrigin ==
    fStage \in {"created", "raised"} =>
        /\ fStage = "raised" <=>
               /\ fMode = "project"
               /\ OriginOf(fCoords) # NoOrigin
               /\ Get(fCoords, "northAngle", JNull).json = "string"
        /\ fStage = "raised" =>
               /\ fFile = NoFile
               /\ fResult = Failure("TypeError: must be real number, not str")
        /\ fStage = "created" =>
               /\ fFile.storey_placement = "identity"
               /\ fMode = "project" =>
                      [k \in DOMAIN NoGeoreference |-> fFile.georeference[k]] =
                          IF OriginOf(fCoords) # NoOrigin
                          THEN SurveyOffsets(OriginOf(fCoords)) ELSE NoGeoreference
               /\ fMode = "absolute" => fFile.georeference = NoGeoreference

\* A file was created in project mode from an origin with three different
\* coordinates and carries them as offsets.
C11_Witness ==
    /\ fStage = "created" /\ fMode = "project"
    /\ "origin" \in DOMAIN fCoords
    /\ fFile.georeference.Eastings.s = "1"
    /\ fFile.georeference.Northings.s = "3"
    /\ fFile.georeference.OrthogonalHeight.s = "2"

\* C18: a file create_blank_ifc_at_origin has written has the project,
\* site, building and storey hierarchy, its length unit, and the
\* georeferencing applied at the origin (0, 0, 0).
C18_BlankGeoreferencedAtOrigin ==
    (fStage = "blank" /\ fResult.success) =>
        /\ fFile.hierarchy = <<"IfcProject", "IfcSite", "IfcBuilding", "IfcBuildingStorey">>
        /\ fFile.length_unit = "METERS"
        /\ fFile.georeference = SurveyOffsets(BlankOrigin)

\* A blank file was written with its hierarchy and units, and the result
\* names the origin (0, 0, 0).
C18_BlankWitness ==
    /\ fStage = "blank" /\ fResult.success
    /\ fBefore = "complete"
    /\ fResult.origin = BlankOrigin
    /\ fFile.hierarchy[4] = "IfcBuildingStorey"
    /\ fFile.length_unit = "METERS"

\* C12: in every file a successful export has written, every element
\* entity is assigned to the storey, has a shape representation and has a
\* placement, whatever call of its builder raised.
C12_ElementsComplete ==
    (eStage = "returned" /\ eOutcome.result.success) =>
        \A i \in 1..Len(eOutcome.ifc_file.entities) :
            LET element == eOutcome.ifc_file.entities[i]
            IN  /\ element.contained
                /\ element.representation
                /\ element.placement # "none"

\* A successful export wrote a file of two elements, each with container,
\* representation and placement.
C12_CompleteWitness ==
    /\ eStage = "returned" /\ eOutcome.result.success
    /\ eOutcome.output_file = "complete"
    /\ Len(eOutcome.ifc_file.entities) = 2
    /\ \A i \in 1..2 :
           /\ eOutcome.ifc_file.entities[i].contained
           /\ eOutcome.ifc_file.entities[i].representation
           /\ eOutcome.ifc_file.entities[i].placement # "none"


\* The chamber entity a call of add_chamber_to_ifc left in the file.
ChamberCalled == bStage = "called" /\ bKind = "chamber"
ChamberEntity == bResult.entities[1]
LevelRise == (Get(bData, "coverLevel", Zero).lo - Get(bData, "invertLevel", Zero).lo) * 1000

\* C14: for any coverLevel/invertLevel pair the chamber height computed by
\* add_chamber_to_ifc is max(coverLevel - invertLevel, 0.1) (here in
\* millimetres: the larger of the rise and 100), hence never below 0.1;
\* equal levels and a cover below the invert both give 0.1.
C14_ChamberHeightFloor ==
    ChamberCalled =>
        /\ ChamberEntity.height >= 100
        /\ LevelRise > 100 => ChamberEntity.height = LevelRise
        /\ LevelRise <= 100 => ChamberEntity.height = 100

\* A chamber whose cover lies below its invert was built with height 0.1.
C14_Witness ==
    /\ ChamberCalled
    /\ "coverLevel" \in DOMAIN bData
    /\ bData.coverLevel.lo < bData.invertLevel.lo
    /\ ChamberEntity.height = 100

\* The chamber of the end-to-end scenarios: position (10, 2, 5) Y-up,
\* coverLevel 2.0, invertLevel 0.0, width = length = 1.2, rectangle.
ScenarioChamber ==
    [id |-> "chamber", position |-> [x |-> Num(0, 10), y |-> Num(0, 2), z |-> Num(0, 5)],
     width |-> 1200, length |-> 1200, coverLevel |-> Num(0, 2),
     invertLevel |-> Num(0, 0), rotation |-> 0, shape |-> "rectangle"]
ScenarioOrigin == <<Num(0, 10), Zero, Num(0, 5)>>

\* C17: the scenario chamber gets height 2.0 and placement translation
\* (10, 5, -1.0), its base at Z = -1.0, in absolute mode, and placement
\* translation (0, 0, -1.0) in project mode with origin (10, 0, 5).
C17_ScenarioPlacement ==
    (ChamberCalled /\ bData = ScenarioChamber) =>
        /\ ChamberEntity.height = 2000
        /\ bMode = "absolute" =>
              ChamberEntity.translation = <<Num(0, 10), Num(0, 5), Num(0, -1)>>
        /\ (bMode = "project" /\ bOrigin = ScenarioOrigin) =>
              ChamberEntity.translation = <<Zero, Zero, Num(0, -1)>>

\* What the code does with the scenario chamber: height 2.0, and the
\* placement at the invert level, Z = 0.0, in both modes.
C17_ScenarioAtInvert ==
    (ChamberCalled /\ bData = ScenarioChamber) =>
        /\ ChamberEntity.height = 2000
        /\ bMode = "absolute" =>
              ChamberEntity.translation = <<Num(0, 10), Num(0, 5), Zero>>
        /\ (bMode = "project" /\ bOrigin = ScenarioOrigin) =>
              ChamberEntity.translation = <<Zero, Zero, Zero>>

C17_Witness ==
    /\ ChamberCalled /\ bData = ScenarioChamber
    /\ bMode = "project" /\ bOrigin = ScenarioOrigin
    /\ ChamberEntity.translation = <<Zero, Zero, Zero>>

\* A circular chamber with a top slab and a lid of diameter D and frame
\* thickness F.
CircularLidded ==
    /\ ChamberCalled
    /\ Get(bData, "shape", "rectangle") = "circle"
    /\ Get(bData, "diameter", 1000) > 0
    /\ Get(bData, "topThickness", 0) > 0
    /\ "lidConfig" \in DOMAIN bData
    /\ Get(bData.lidConfig, "diameter", 0) > 0
LidOpeningRadius ==
    bData.lidConfig.diameter * 500 + Get(bData.lidConfig, "frameThickness", 75) * 1000
TopSlabs(entity) ==
    { i \in 1..Len(entity.solids) : entity.solids[i].part = "top" }

\* C15: for a circular chamber with a top slab, whose lid configuration
\* gives lid diameter D (mm) and frame thickness F (mm), the top-slab
\* opening is circular with radius D/2000 + F/1000 (here in micrometres:
\* D * 500 + F * 1000), whatever the chamber's outer radius.
C15_LidOpeningRadius ==
    CircularLidded =>
        \E i \in TopSlabs(ChamberEntity) :
            ChamberEntity.solids[i].opening
                = [shape |-> "circle", radius |-> LidOpeningRadius]

\* The same, for the lid configurations that name their shape "circle".
C15_LidOpeningRadiusShaped ==
    (CircularLidded /\ Get(bData.lidConfig, "shape", "none") = "circle") =>
        \E i \in TopSlabs(ChamberEntity) :
            ChamberEntity.solids[i].opening
                = [shape |-> "circle", radius |-> LidOpeningRadius]

\* A lid of diameter 600 and frame thickness 50 that names no shape: the
\* call raised and the chamber was left without geometry.
C15_Witness ==
    /\ CircularLidded
    /\ bData.lidConfig = [frameThickness |-> 50, diameter |-> 600]
    /\ bResult.raised
    /\ ChamberEntity.solids = <<>>


\* The path a pipe or connection was given, its points that lie closer
\* than 1 mm to their predecessor, the same for the path as the export
\* converts it (in project mode each coordinate less the origin's, in
\* binary64), and the solids of the element the call produced.  Two points
\* are closer than 1 mm when their coordinates are of one magnitude and
\* the squares of their differences, counted in 1 / SubUnits m, sum to
\* less than SubUnits^2 / 1000000.
PathCalled == bStage = "called" /\ bKind \in {"pipe", "light_connection"}
PathGiven == Get(bData, "points", <<>>)
Closer1mm(p, q) ==
    /\ \A i \in 1..3 : q[i].hi = p[i].hi
    /\ LET d == [i \in 1..3 |->
                    (q[i].lo - p[i].lo) * SubUnits + Sub(q[i]) - Sub(p[i])]
       IN  d[1] * d[1] + d[2] * d[2] + d[3] * d[3]
               <= (SubUnits * SubUnits - 1) \div 1000000
NearDuplicates == { i \in 2..Len(PathGiven) : Closer1mm(PathGiven[i - 1], PathGiven[i]) }
Converted(points) ==
    [i \in 1..Len(points) |->
        IF bMode = "project"
        THEN <<FSub(points[i][1], bOrigin[1]), FSub(points[i][3], bOrigin[3]),
               FSub(points[i][2], bOrigin[2])>>
        ELSE <<points[i][1], points[i][3], points[i][2]>>]
PathConverted == Converted(PathGiven)
ConvertedDuplicates ==
    { i \in 2..Len(PathGiven) : Closer1mm(PathConverted[i - 1], PathConverted[i]) }
EmittedSolids == IF bResult.entities = <<>> THEN <<>> ELSE bResult.entities[1].solids

\* C16: add_pipe_to_ifc given a path of N points none of whose consecutive
\* pairs is closer than 1 mm produces exactly N-1 extruded solids; given a
\* path of N points in which exactly one point is a near-duplicate of its
\* predecessor it produces exactly N-2.
C16_SegmentCount ==
    (bStage = "called" /\ bKind = "pipe" /\ Len(PathGiven) >= 1) =>
        /\ NearDuplicates = {} => Len(EmittedSolids) = Len(PathGiven) - 1
        /\ Cardinality(NearDuplicates) = 1 => Len(EmittedSolids) = Len(PathGiven) - 2

\* C16 as amended: the same for the paths of at least 2 points with the
\* distances taken between the converted points: N-1 solids when no
\* converted point is closer than 1 mm to its predecessor, N-2 when
\* exactly one is.  A shorter "points" is replaced by [startPoint,
\* endPoint], each [0,0,0] when not given: 1 solid when the two, once
\* converted, are 1 mm or more apart, and none otherwise.
C16_SegmentCountOfPath ==
    (bStage = "called" /\ bKind = "pipe") =>
        /\ Len(PathGiven) >= 2 =>
               /\ ConvertedDuplicates = {}
                      => Len(EmittedSolids) = Len(PathGiven) - 1
               /\ Cardinality(ConvertedDuplicates) = 1
                      => Len(EmittedSolids) = Len(PathGiven) - 2
        /\ Len(PathGiven) < 2 =>
               LET ends == Converted(<<Get(bData, "startPoint", <<Zero, Zero, Zero>>),
                                       Get(bData, "endPoint", <<Zero, Zero, Zero>>)>>)
               IN  Len(EmittedSolids) = IF Closer1mm(ends[1], ends[2]) THEN 0 ELSE 1

\* A path of 3 points in project mode, one of them under a millimetre
\* from its predecessor without being equal to it and the other over a
\* millimetre from its own, gave 1 solid.
C16_Witness ==
    /\ bStage = "called" /\ bKind = "pipe" /\ bMode = "project"
    /\ Len(PathGiven) = 3 /\ Cardinality(ConvertedDuplicates) = 1
    /\ \A i \in 2..3 : PathGiven[i] # PathGiven[i - 1]
    /\ \E i \in 2..3 : PathGiven[i][1] = PathGiven[i - 1][1]
    /\ Len(EmittedSolids) = 1

\* The pipe of end-to-end scenario 3.
ScenarioPipe ==
    [pipeId |-> "pipe", diameter |-> 200,
     points |-> <<<<Zero, Zero, Zero>>, <<Num(0, 10), Zero, Zero>>>>]
PathRadius == Get(bData, "diameter", IF bKind = "pipe" THEN 100 ELSE 50) * 500
ScenarioCylinder ==
    (bStage = "called" /\ bData = ScenarioPipe /\ bMode = "absolute") =>
        /\ Len(EmittedSolids) = 1
        /\ bResult.entities[1].radius = 100000
        /\ EmittedSolids[1].span = <<Num(0, 10), Zero, Zero>>
        /\ EmittedSolids[1].start_extension = 0
        /\ EmittedSolids[1].end_extension = 0

\* C19: in add_pipe_to_ifc and add_light_connection_to_ifc, for every
\* path, the first emitted solid starts exactly at the first path point and
\* the last emitted solid ends exactly at the last path point, while every
\* other end of a solid is extended by radius x 0.5; a straight two-point
\* pipe of diameter 200 mm over 10 m is one cylinder of radius 0.1 and
\* length exactly 10.
C19_NoExtensionAtEmittedExtremes ==
    /\ (PathCalled /\ EmittedSolids # <<>>) =>
          /\ EmittedSolids[1].start_extension = 0
          /\ EmittedSolids[Len(EmittedSolids)].end_extension = 0
          /\ \A k \in 2..Len(EmittedSolids) :
                /\ EmittedSolids[k].start_extension = PathRadius \div 2
                /\ EmittedSolids[k - 1].end_extension = PathRadius \div 2
    /\ ScenarioCylinder

\* The same with the extremes taken by the segment's place in the path: the
\* segment from the first point is not extended at its start, the segment
\* to the last point is not extended at its end, every other end of an
\* emitted solid is extended by radius x 0.5, a skipped segment's
\* neighbours included.
C19_NoExtensionAtPathExtremes ==
    /\ (PathCalled /\ EmittedSolids # <<>>) =>
          \A k \in 1..Len(EmittedSolids) :
              LET solid == EmittedSolids[k]
                  last == IF Len(PathGiven) < 2 THEN 1 ELSE Len(PathGiven) - 1
              IN  /\ solid.start_extension
                        = IF solid.segment = 1 THEN 0 ELSE PathRadius \div 2
                  /\ solid.end_extension
                        = IF solid.segment = last THEN 0 ELSE PathRadius \div 2
    /\ ScenarioCylinder

\* A path whose first segment is skipped: its only solid is extended at
\* its start.
C19_Witness ==
    /\ PathCalled
    /\ Len(PathGiven) = 3 /\ NearDuplicates = {2}
    /\ Len(EmittedSolids) = 1
    /\ EmittedSolids[1].start_extension = PathRadius \div 2
    /\ EmittedSolids[1].end_extension = 0


\* The elements a builder call gave geometry, the points a solid is built
\* at, and the converted points of the call's input.
BuiltElements ==
    IF bStage # "called" THEN {}
    ELSE { bResult.entities[i] : i \in { k \in 1..Len(bResult.entities) :
                                            bResult.entities[k].representation } }
SolidPoints(solid) ==
    (IF "from" \in DOMAIN solid THEN {solid.from, solid.to} ELSE {})
        \cup (IF "swept_disk" \in DOMAIN solid
              THEN { solid.swept_disk[i] : i \in 1..Len(solid.swept_disk) } ELSE {})
        \cup (IF "mesh" \in DOMAIN solid
              THEN { solid.mesh[i] : i \in 1..Len(solid.mesh) } ELSE {})
        \cup (IF "at" \in DOMAIN solid THEN {solid.at} ELSE {})
InputPoints ==
    CASE bKind = "pipe" ->
           IF Len(Get(bData, "points", <<>>)) < 2
           THEN <<Get(bData, "startPoint", OriginPoint), Get(bData, "endPoint", OriginPoint)>>
           ELSE bData.points
      [] bKind \in {"cable_tray", "light_connection"} -> Get(bData, "points", <<>>)
      [] bKind = "road_swept" -> Get(bData, "centerline", <<>>)
      [] bKind = "road_mesh" -> Get(bData, "vertices", <<>>)
      [] bKind = "road" ->
           Flatten([i \in 1..Len(Get(bData, "components", <<>>)) |->
                       Get(bData.components[i], "vertices", <<>>)
                           \o Get(bData.components[i], "centerline", <<>>)])
      [] bKind = "hanger" -> <<Get(bData, "position", OriginPoint)>>
      [] bKind = "dwg_line" ->
           <<Get(bData, "start", OriginPoint), Get(bData, "end", OriginPoint)>>
      [] bKind = "dwg_polyline" -> Get(bData, "vertices", <<>>)
      [] OTHER ->
           LET position == Get(bData, "position", [none |-> TRUE])
           IN  <<<<Get(position, "x", Zero),
                   IF bKind = "chamber" THEN Get(bData, "invertLevel", Zero)
                   ELSE Get(position, "y", Zero),
                   Get(position, "z", Zero)>>>>
ConvertedInput ==
    LET points_ifc == convert_points_yup_to_ifc(InputPoints, bOrigin, bMode)
    IN  { points_ifc[i] : i \in 1..Len(points_ifc) }
LocalSolids(element) ==
    \A i \in 1..Len(element.solids) : SolidPoints(element.solids[i]) = {}
BakedSolids(element) ==
    \A i \in 1..Len(element.solids) :
        /\ SolidPoints(element.solids[i]) # {}
        /\ SolidPoints(element.solids[i]) \subseteq ConvertedInput
PlacedByMatrix(element) ==
    /\ element.placement = "matrix"
    /\ "translation" \in DOMAIN element
    /\ \E p \in ConvertedInput :
          element.translation[1] = p[1] /\ element.translation[2] = p[2]
    /\ LocalSolids(element)
PlacedByVertices(element) ==
    /\ element.placement = "identity"
    /\ "translation" \notin DOMAIN element
    /\ BakedSolids(element)

\* C13: no builder applies both placement disciplines to the same
\* geometry: for every element produced by any builder, either the element
\* placement carries the translation (the converted position) and all its
\* solids are defined around the local origin, or the element placement is
\* the identity and its solids carry the mode-converted coordinates; the
\* position offset is never applied twice and never omitted.
C13_OneDiscipline ==
    \A element \in BuiltElements :
        PlacedByMatrix(element) \/ PlacedByVertices(element)

\* A hanger at (1, 2, 3) Y-up in project mode with origin (1, 0, 0): the
\* matrix carries (0, 3, 2 + height) and the solids are local.
C13_Witness ==
    /\ bStage = "called" /\ bKind = "hanger"
    /\ Get(bData, "position", OriginPoint) = <<Num(0, 1), Num(0, 2), Num(0, 3)>>
    /\ bMode = "project" /\ bOrigin = <<Num(0, 1), Zero, Zero>>
    /\ bResult.entities[1].translation[1] = Zero
    /\ bResult.entities[1].translation[2] = Num(0, 3)
    /\ LocalSolids(bResult.entities[1])

\* C20: chambers, hangers and public-light poles use absolute local
\* placement (translation and rotation attached to the element, solids in
\* local coordinates), whereas pipes, conduits, cable trays and road
\* elements use baked-in-vertex placement with the element placement at
\* the identity.
C20_DisciplineByKind ==
    \A element \in BuiltElements :
        /\ element.kind \in {"chamber", "hanger", "public_light"} =>
              PlacedByMatrix(element)
        /\ element.kind \in {"pipe", "light_connection", "cable_tray",
                             "road_swept", "road_mesh"} =>
              PlacedByVertices(element)

\* The same with the public lights, and the DWG lines and polylines,
\* among the baked elements.
C20_DisciplineByKindInCode ==
    \A element \in BuiltElements :
        /\ element.kind \in {"chamber", "lid", "hanger"} => PlacedByMatrix(element)
        /\ element.kind \in {"pipe", "light_connection", "cable_tray",
                             "road_swept", "road_mesh", "public_light",
                             "dwg_line", "dwg_polyline"} =>
              PlacedByVertices(element)

\* A public light at (1, 2, 3) Y-up: identity placement, the pole built at
\* (1, 3, 2).
C20_Witness ==
    /\ bStage = "called" /\ bKind = "public_light" /\ bMode = "absolute"
    /\ "position" \in DOMAIN bData
    /\ bData.position = [x |-> Num(0, 1), y |-> Num(0, 2), z |-> Num(0, 3)]
    /\ bResult.entities[1].placement = "identity"
    /\ bResult.entities[1].solids[1].part = "pole"
    /\ bResult.entities[1].solids[1].at = <<Num(0, 1), Num(0, 3), Num(0, 2)>>


\* The base slab, walls and top slab of the chamber that was built, and
\* the thicknesses the call worked with (millimetres).
ChamberBuilt == ChamberCalled /\ ~bResult.raised
ChamberPart(name) ==
    LET found == { i \in 1..Len(ChamberEntity.solids) : ChamberEntity.solids[i].part = name }
    IN  IF found = {} THEN [part |-> "none", z |-> 0, depth |-> 0]
        ELSE ChamberEntity.solids[CHOOSE i \in found : TRUE]
ThicknessGiven(key) ==
    LET given == Get(bData, key, Get(bData, "wallThickness", 0))
    IN  (IF given > 0 THEN given ELSE 0) * 1000
StackTop == ThicknessGiven("baseThickness") + ChamberEntity.height

\* C21: for every chamber input the solids stack as the docstring of
\* create_chamber_geometry_solids states: base slab over [0, base], walls
\* over [base, base + height - top], top slab over
\* [base + height - top, base + height]; the top of the geometry is at
\* base + height.
C21_SolidsStack ==
    ChamberBuilt =>
        LET base == ThicknessGiven("baseThickness")
            top == ThicknessGiven("topThickness")
            walls == ChamberPart("walls")
        IN  /\ base > 0 => ChamberPart("base").z = 0 /\ ChamberPart("base").depth = base
            /\ walls.z = base
            /\ walls.z + walls.depth = StackTop - top
            /\ top > 0 =>
                  /\ ChamberPart("top").z = StackTop - top
                  /\ ChamberPart("top").z + ChamberPart("top").depth = StackTop

\* The same for the chambers whose height exceeds the top slab by 0.1 or
\* more.
C21_SolidsStackTall ==
    (ChamberBuilt /\ ChamberEntity.height - ThicknessGiven("topThickness") >= 100) =>
        LET base == ThicknessGiven("baseThickness")
            top == ThicknessGiven("topThickness")
            walls == ChamberPart("walls")
        IN  /\ base > 0 => ChamberPart("base").z = 0 /\ ChamberPart("base").depth = base
            /\ walls.z = base
            /\ walls.z + walls.depth = StackTop - top
            /\ top > 0 =>
                  /\ ChamberPart("top").z = StackTop - top
                  /\ ChamberPart("top").z + ChamberPart("top").depth = StackTop

\* A chamber of height 1.0 with walls, base and top of thickness 1.0: the
\* walls are 0.1 high and the top slab ends at 2.1, not at 2.0.
C21_Witness ==
    /\ ChamberBuilt
    /\ ChamberEntity.height = 1000
    /\ ThicknessGiven("baseThickness") = 1000
    /\ ThicknessGiven("topThickness") = 1000
    /\ ChamberPart("walls").depth = 100
    /\ ChamberPart("top").z + ChamberPart("top").depth = 2100


\* The lid of the chamber that was built, its frame thickness
\* (millimetres), and the invert level in the selected mode.
LidBuilt == ChamberBuilt /\ Len(bResult.entities) = 2
LidEntity == bResult.entities[2]
LidFrame == Get(bData.lidConfig, "frameThickness", 75)
InvertInMode ==
    IF bMode = "project" THEN FSub(Get(bData, "invertLevel", Zero), bOrigin[2])
    ELSE Get(bData, "invertLevel", Zero)

\* C22: for every chamber with a lid configuration the lid is placed with
\* the chamber's X/Y and rotation, at a Z such that the vertical centre of
\* the lid frame (placement Z + frameThickness / 2) equals the chamber's
\* cover level in the selected mode, for all coverLevel/invertLevel pairs.
C22_LidFrameAtCoverLevel ==
    LidBuilt =>
        /\ LidEntity.translation[1] = ChamberEntity.translation[1]
        /\ LidEntity.translation[2] = ChamberEntity.translation[2]
        /\ LidEntity.rotation = ChamberEntity.rotation
        /\ LidEntity.translation[3].above = InvertInMode
        /\ LidEntity.translation[3].by + LidFrame * 500 = LevelRise * 1000

\* The same with the cover elevation the code computes, the invert
\* elevation plus the chamber's height max(coverLevel - invertLevel, 0.1):
\* it is the cover level when the cover is 0.1 or more above the invert.
C22_LidFrameAtCoverElevation ==
    LidBuilt =>
        /\ LidEntity.translation[1] = ChamberEntity.translation[1]
        /\ LidEntity.translation[2] = ChamberEntity.translation[2]
        /\ LidEntity.rotation = ChamberEntity.rotation
        /\ LidEntity.translation[3].above = InvertInMode
        /\ LidEntity.translation[3].by + LidFrame * 500
              = (IF LevelRise > 100 THEN LevelRise ELSE 100) * 1000

\* A lidded chamber whose cover lies below its invert, turned by 90: the
\* frame's centre is 0.1 above the invert.
C22_Witness ==
    /\ LidBuilt
    /\ LevelRise < 0
    /\ LidEntity.rotation = 90
    /\ LidEntity.translation[3].by + LidFrame * 500 = 100000


\* A lidded chamber with a top slab, and whether the lid configuration
\* gives the dimension its shape needs.
LiddedTopSlab == LidBuilt /\ ChamberPart("top").part = "top"
LidSized ==
    LET lid_shape == Get(bData.lidConfig, "shape", Get(bData, "shape", "rectangle"))
    IN  IF lid_shape = "circle" THEN Get(bData.lidConfig, "diameter", 0) # 0
        ELSE Get(bData.lidConfig, "width", 0) # 0

\* C23: for every chamber and every lid configuration (lid dimensions
\* given or left to their fallbacks, lid shape given or defaulted) the
\* top-slab opening has the same shape and size as the outer footprint of
\* the lid frame: circular radius = lid radius + frame thickness,
\* rectangular side = lid dimension + frame thickness.
C23_OpeningMatchesFrame ==
    LiddedTopSlab => ChamberPart("top").opening = LidEntity.solids[1].footprint

\* The same for the lid configurations that give the dimension.
C23_OpeningMatchesSizedFrame ==
    (LiddedTopSlab /\ LidSized) =>
        ChamberPart("top").opening = LidEntity.solids[1].footprint

\* A rectangular chamber 1.0 wide whose lid gives no width: the frame is
\* 1.075 wide, the opening 0.5.
C23_Witness ==
    /\ LiddedTopSlab
    /\ bData.lidConfig = [frameThickness |-> 75]
    /\ LidEntity.solids[1].footprint = [shape |-> "rectangle", width |-> 1075000]
    /\ ChamberPart("top").opening = [shape |-> "rectangle", width |-> 500000]

\* C24: create_chamber_geometry_solids never fails on an undefined opening
\* dimension: for every chamber shape, every lid configuration (absent,
\* without a "shape" key, shape "circle", shape "rectangle") and top
\* thickness > 0, the chamber is built with its top slab and the call does
\* not raise.
C24_OpeningAlwaysDefined ==
    (ChamberCalled /\ ThicknessGiven("topThickness") > 0) =>
        /\ ~bResult.raised
        /\ ChamberEntity.representation
        /\ ChamberPart("top").part = "top"

\* The same for the rectangular chambers.
C24_OpeningDefinedRectangular ==
    (ChamberCalled /\ ThicknessGiven("topThickness") > 0
        /\ Get(bData, "shape", "rectangle") # "circle") =>
        /\ ~bResult.raised
        /\ ChamberEntity.representation
        /\ ChamberPart("top").part = "top"

\* A circular chamber with a top slab and a rectangular lid: the call
\* raised after the chamber entity was created.
C24_Witness ==
    /\ ChamberCalled /\ ThicknessGiven("topThickness") > 0
    /\ Get(bData, "shape", "rectangle") = "circle"
    /\ "lidConfig" \in DOMAIN bData
    /\ Get(bData.lidConfig, "shape", "none") = "rectangle"
    /\ bResult.raised
    /\ ~ChamberEntity.representation


\* The components of the road add_road_to_ifc was given, and the kind of
\* element (none: the empty sequence) the dispatch owes a component when
\* a mesh needs least_indices indices.
RoadCalled == bStage = "called" /\ bKind = "road"
RoadComponents == Get(bData, "components", <<>>)
OwedKind(component, least_indices) ==
    LET comp_type == Get(component, "type", "unknown")
    IN  IF comp_type \in {"carriageway", "footpath", "verge", "swale", "ditch",
                          "wall", "fence", "hedge", "custom"}
        THEN IF Len(Get(component, "vertices", <<>>)) >= 3
                    /\ Len(Get(component, "indices", <<>>)) >= least_indices
             THEN <<"road_mesh">> ELSE <<>>
        ELSE IF comp_type \in {"kerb", "haunch", "footway", "bedding"}
        THEN IF Len(Get(component, "centerline", <<>>)) >= 2
             THEN <<"road_swept">> ELSE <<>>
        ELSE <<>>
OwedKinds(least_indices) ==
    Flatten([i \in 1..Len(RoadComponents) |-> OwedKind(RoadComponents[i], least_indices)])
CreatedKinds == [i \in 1..Len(bResult.entities) |-> bResult.entities[i].kind]
WellFormedVertices ==
    \A i \in 1..Len(RoadComponents) :
        \A k \in 1..Len(Get(RoadComponents[i], "vertices", <<>>)) :
            Len(RoadComponents[i].vertices[k]) >= 3

\* C25: add_road_to_ifc dispatches each component by type: carriageway and
\* footpath/verge/swale/ditch/wall/fence/hedge/custom become one mesh
\* element each, a mesh of fewer than 3 vertices or fewer than 3 triangles
\* (9 indices) is rejected; kerb/haunch/footway/bedding become one swept
\* element each; any other type produces no element and does not abort
\* the road; the returned list holds exactly the elements created.
C25_RoadDispatch ==
    RoadCalled =>
        /\ ~bResult.raised
        /\ CreatedKinds = OwedKinds(9)
        /\ bResult.returned <=> bResult.entities # <<>>

\* Every centerline of the road keeps, once converted, a segment of 1 mm
\* or more.
CenterlinesKept ==
    \A i \in 1..Len(RoadComponents) :
        LET centerline == Converted(Get(RoadComponents[i], "centerline", <<>>))
        IN  Len(centerline) >= 2 =>
                \E k \in 2..Len(centerline) :
                    ~Closer1mm(centerline[k - 1], centerline[k])

\* What the code does: a mesh is rejected below 3 vertices or 3 indices
\* (1 triangle), for the roads whose vertices have 3 coordinates each and
\* whose centerlines keep a segment.
C25_RoadDispatchByIndices ==
    (RoadCalled /\ WellFormedVertices /\ CenterlinesKept) =>
        /\ ~bResult.raised
        /\ CreatedKinds = OwedKinds(3)
        /\ bResult.returned <=> bResult.entities # <<>>

\* A road of one carriageway with 3 vertices and 1 triangle, and one
\* component of unknown type: one mesh element.
C25_Witness ==
    /\ RoadCalled
    /\ Len(RoadComponents) = 2
    /\ Get(RoadComponents[1], "type", "unknown") = "carriageway"
    /\ Len(Get(RoadComponents[1], "indices", <<>>)) = 3
    /\ Get(RoadComponents[2], "type", "unknown") = "tree"
    /\ CreatedKinds = <<"road_mesh">>
    /\ bResult.entities[1].solids[1].triangles = 1


\* ---- C26: sign records of the public-lights collection.
SignCalled ==
    /\ bStage = "called" /\ bKind = "public_light"
    /\ Get(bData, "type", "light") = "sign"
    /\ bResult.returned
SignParts ==
    { bResult.entities[1].solids[i].part :
          i \in 1..Len(bResult.entities[1].solids) }
SignTally == count_public_light(bData, bResult.returned)
SignConfigured == DOMAIN Get(bData, "signConfig", <<>>) # {}
SignGraphics ==
    Len(SelectSeq(bResult.entities[1].solids, LAMBDA solid : solid.part = "graphic"))

\* C26 as stated: for every public-lights record of type "sign" the builder
\* returns the pole and a sign plate and never an arm or a fixture, and the
\* export counts the created element as a sign and not as a light.
C26_SignSolids ==
    SignCalled =>
        /\ "pole" \in SignParts
        /\ "plate" \in SignParts
        /\ SignParts \cap {"arm", "fixture"} = {}
        /\ SignTally = [signs_created |-> 1, public_lights_created |-> 0]

\* C26 as the code has it: a record of type "sign" is counted as a sign
\* whatever it holds; with a non-empty signConfig it has the pole, no arm
\* and no fixture, a plate and a border exactly when its shape is not
\* "custom" (the border when wider than 1 mm), and one graphic per shape of
\* exportGeometry with 3 vertices or more; without one it is built as a
\* light, with its fixtures.
C26_SignSolidsConfigured ==
    SignCalled =>
        LET sign_config == Get(bData, "signConfig", <<>>)
            shapes == Get(sign_config, "exportGeometry", <<>>)
        IN  /\ SignTally = [signs_created |-> 1, public_lights_created |-> 0]
            /\ "pole" \in SignParts
            /\ SignConfigured =>
                 /\ SignParts \cap {"arm", "fixture"} = {}
                 /\ "plate" \in SignParts <=> Get(sign_config, "shape", "rectangular") # "custom"
                 /\ "border" \in SignParts <=>
                        /\ Get(sign_config, "shape", "rectangular") # "custom"
                        /\ Get(sign_config, "borderWidth", 20) > 1
                 /\ SignGraphics =
                        Cardinality({ i \in 1..Len(shapes) :
                                         Len(Get(shapes[i], "vertices", <<>>)) >= 3 })
            /\ ~SignConfigured => "fixture" \in SignParts

\* A record of type "sign" without signConfig was built with a fixture and
\* counted as a sign.
C26_Witness ==
    /\ SignCalled /\ ~SignConfigured
    /\ "fixture" \in SignParts
    /\ SignTally.signs_created = 1


\* ---- C27: the progress stream of an export id.
TerminalTypes == {"complete", "error"}
StoredTerminal(record) == record.type \in TerminalTypes /\ record.writer \in Handlers
StreamEndedWith(o, P(_)) ==
    /\ ssePc[o] = "closed"
    /\ Len(sseSent[o]) > 0
    /\ P(sseSent[o][Len(sseSent[o])])

\* C27 as stated: once a terminal record is stored for the export id of an
\* open stream, the stream eventually emits a stored terminal record of
\* that id and ends.
C27_TerminalDelivered ==
    \A o \in Observers :
        (/\ \/ ssePc[o] \in {"opened", "polling", "checked", "read"}
            \/ /\ ssePc[o] = "yielded"
               /\ sseSent[o][Len(sseSent[o])].type \notin TerminalTypes
         /\ StoredTerminal(export_progress[sseId[o]]))
            ~> StreamEndedWith(o, StoredTerminal)

\* C27, what the stream keeps: the stored records it emits have strictly
\* rising timestamps (none is emitted twice), nothing follows a record of
\* type "complete" or "error", and the generator is suspended at the yield
\* of such a record, or has returned after it, exactly when the last
\* event is one; it has returned only then.
C27_EmitsNewerOnly ==
    \A o \in Observers :
        LET sent == sseSent[o]
        IN  /\ \A i, j \in 1..Len(sent) :
                  (i < j /\ sent[i].writer \in Handlers /\ sent[j].writer \in Handlers)
                      => sent[i].timestamp < sent[j].timestamp
            /\ \A i \in 1..(Len(sent) - 1) : sent[i].type \notin TerminalTypes
            /\ (Len(sent) > 0 /\ sent[Len(sent)].type \in TerminalTypes)
                  <=> \/ ssePc[o] = "closed"
                      \/ ssePc[o] = "yielded" /\ ~ENABLED Resume(o)
            /\ ssePc[o] = "yielded" => Len(sent) > 0

\* C27, the stream never blocks the export: whatever the streams do, a
\* handler that has not answered can take its next step.
C27_NeverBlocksExport ==
    \A h \in Handlers :
        /\ hPc[h] = "request" => ENABLED Receive(h)
        /\ hPc[h] = "started" => ENABLED CreateTemp(h)
        /\ hPc[h] = "temp" => ENABLED CallExport(h)

\* C27, what is live: every stream ends, with a terminal record of the
\* store or with the error of its own timeout.
C27_StreamEnds ==
    \A o \in Observers : <>(ssePc[o] = "closed")

\* A stream that emitted the "start" record polls while the store holds an
\* "error" record with that same timestamp, which it will never emit.
C27_Witness ==
    \E o \in Observers :
        /\ ssePc[o] = "polling"
        /\ StoredTerminal(export_progress[sseId[o]])
        /\ export_progress[sseId[o]].timestamp = sseLast[o]
        /\ Len(sseSent[o]) > 0
        /\ sseSent[o][Len(sseSent[o])].type = "start"


\* ---- C28: the terminal progress record of a request.
TerminalStored(h) ==
    { i \in 1..Len(hStored[h]) : hStored[h][i].type \in {"complete", "error"} }
OneTerminalLast(h) ==
    /\ Cardinality(TerminalStored(h)) = 1
    /\ hStored[h][Len(hStored[h])].type =
           (IF hResponse[h].status = 200 THEN "complete" ELSE "error")
NoTerminalYet(h) == TerminalStored(h) = {}

\* C28 as stated: a request to /api/export-chambers whose body passed the
\* validation (it was not answered 400) has, once answered, stored exactly
\* one terminal record, as the last of its records, and none before it is
\* answered; a request answered 400 stored no record and made no
\* temporary file.
C28_OneTerminalRecord ==
    \A h \in Handlers :
        /\ hPc[h] # "done" => NoTerminalYet(h)
        /\ (hPc[h] = "done" /\ hResponse[h].status # 400) => OneTerminalLast(h)
        /\ (hPc[h] = "done" /\ hResponse[h].status = 400) =>
               hStored[h] = <<>> /\ hTemp[h] = "none"

\* C28 as the code has it: the same for every request whose body is a
\* JSON object; a body that is true but no object is answered 500 with no
\* record stored and no temporary file made.
C28_OneTerminalRecordOfObject ==
    \A h \in Handlers :
        /\ hPc[h] # "done" => NoTerminalYet(h)
        /\ (hPc[h] = "done" /\ hData[h] \notin {NoData, NonObject}) => OneTerminalLast(h)
        /\ (hPc[h] = "done" /\ hData[h] = NoData) =>
               hResponse[h].status = 400 /\ hStored[h] = <<>> /\ hTemp[h] = "none"
        /\ (hPc[h] = "done" /\ hData[h] = NonObject) =>
               hResponse[h].status = 500 /\ hStored[h] = <<>> /\ hTemp[h] = "none"

\* A request whose body is [1] was answered 500 and stored no record,
\* while another request stored its "start", its progress and its "error".
C28_Witness ==
    \E h, g \in Handlers :
        /\ hPc[h] = "done" /\ hData[h] = NonObject
        /\ hResponse[h].status = 500 /\ hStored[h] = <<>>
        /\ hPc[g] = "done" /\ Len(hStored[g]) = 3 /\ OneTerminalLast(g)


\* ---- C29: the two coordinate modes and the map conversion.
\* IfcMapConversion applied to the local point (x, y, z) of a file, in
\* exact arithmetic: E = Eastings + XAxisAbscissa * x - XAxisOrdinate * y,
\* N = Northings + XAxisOrdinate * x + XAxisAbscissa * y,
\* H = OrthogonalHeight + z (no rotation without the two X-axis values).
\* The X-axis values are taken to the nearest whole number, which is
\* their value up to 2.5e-16 for the quarter turns the files here carry.
Times(k, v) == Num(k.lo * v.hi, k.lo * v.lo)
Plus(a, b) == Num(a.hi + b.hi, a.lo + b.lo)
MapConversion(georeference, local) ==
    LET abscissa == Get(georeference, "XAxisAbscissa", JNumber("1.0", Num(0, 1))).n
        ordinate == Get(georeference, "XAxisOrdinate", JNumber("0.0", Zero)).n
    IN  <<Plus(georeference.Eastings.n,
               Plus(Times(abscissa, local[1]), Times(Num(0, -ordinate.lo), local[2]))),
          Plus(georeference.Northings.n,
               Plus(Times(ordinate, local[1]), Times(abscissa, local[2]))),
          Plus(georeference.OrthogonalHeight.n, local[3])>>
FileOrigin == get_project_origin_tuple(fCoords).value
ProjectFile == fStage = "created" /\ fMode = "project"
Rotated(georeference) ==
    Get(georeference, "XAxisOrdinate", JNumber("0.0", Zero)).s \notin {"0.0", "-0.0"}
        \/ Get(georeference, "XAxisAbscissa", JNumber("1.0", Num(0, 1))).s # "1.0"
ExactOffset(point) ==
    \A i \in 1..3 : Plus(FSub(point[i], FileOrigin[i]), FileOrigin[i]) = point[i]

\* C29 as stated: for every file created in project mode and every element
\* position, the project-mode coordinates mapped through the file's map
\* conversion are the absolute-mode coordinates of the position.
C29_ModesDescribeSameModel ==
    ProjectFile =>
        \A point \in OriginTuples :
            MapConversion(fFile.georeference,
                          convert_point_yup_to_ifc(point, FileOrigin, "project"))
                = convert_point_yup_to_ifc(point, FileOrigin, "absolute")

\* C29 as the code has it: the two modes agree when the file carries no
\* rotation and the subtraction of the origin was exact.
C29_ModesAgreeUnrotated ==
    ProjectFile =>
        \A point \in OriginTuples :
            (~Rotated(fFile.georeference) /\ ExactOffset(point)) =>
                MapConversion(fFile.georeference,
                              convert_point_yup_to_ifc(point, FileOrigin, "project"))
                    = convert_point_yup_to_ifc(point, FileOrigin, "absolute")

\* A file created in project mode at the origin (1, 2, 3) with a north
\* angle of 90 degrees: the position (2, 2, 3), one metre east of the
\* origin, is written as (1, 0, 0) and mapped one metre north of it.
C29_Witness ==
    /\ ProjectFile
    /\ FileOrigin = <<Num(0, 1), Num(0, 2), Num(0, 3)>>
    /\ Get(fFile.georeference, "XAxisOrdinate", JNull).s = "1.0"
    /\ convert_point_yup_to_ifc(<<Num(0, 2), Num(0, 2), Num(0, 3)>>, FileOrigin, "project")
           = <<Num(0, 1), Zero, Zero>>
    /\ MapConversion(fFile.georeference, <<Num(0, 1), Zero, Zero>>)
           = <<Num(0, 1), Num(0, 4), Num(0, 2)>>


\* ---- C30: the temporary file of an answered request.
FileSent(h) == hPc[h] = "done" /\ hResponse[h].status = 200 /\ hTemp[h] = "exists"

\* C30 as stated: after a file was sent, its temporary file is eventually
\* deleted while the server keeps running.
C30_TempEventuallyDeleted ==
    \A h \in Handlers : FileSent(h) ~> (tRunning /\ tFiles = 0)

\* C30 as the code has it: while the server runs it holds one temporary
\* file per file it has sent, and the files are deleted only when the
\* interpreter exits.
C30_TempKeptUntilExit ==
    /\ tRunning => tFiles = tSent
    /\ ~tRunning => tFiles = 0
    /\ \A h \in Handlers : (FileSent(h) => tRunning) /\ (hTemp[h] = "removed" /\ hResponse[h].status = 200 => ~tRunning)

\* The running server has answered MaxServed requests with a file and
\* holds as many temporary files.
C30_Witness ==
    /\ tRunning /\ tSent = MaxServed /\ tFiles = MaxServed
    /\ \E h \in Handlers : FileSent(h)

====
